---- MODULE Spec2Model ----
(***************************************************************************)
(* A model of the rfp-data-enricher batch worker.                          *)
(*                                                                         *)
(* A behaviour of Spec is one of:                                          *)
(*   - one request to a handler of src/src/enrich_app.py (enrich, "/", or  *)
(*     quality, "/quality") over the OUTPUT table;                         *)
(*   - one request to run_batch of src/src/madrid_enricher.py over the     *)
(*     performing_arts_madrid table;                                       *)
(*   - one application of a helper (baseline_revenue, the capacity         *)
(*     extractor, enrich_from_domain) to bounded inputs.                   *)
(*                                                                         *)
(* Representation.  A nullable value is a sequence of length at most one:  *)
(* NULL is <<>> and a stored value v is <<v>>.  Money is kept in cents,    *)
(* an LLM revenue in thousandths of a currency unit, a confidence and the  *)
(* load factor in hundredths.  Timestamps are kept as ranks: only their    *)
(* order is ever read (ORDER BY).                                          *)
(***************************************************************************)
EXTENDS Integers, Sequences, FiniteSets, TLC

VARIABLES tbl, cfg, inv, peer, mtbl, minv, call, lim, rt

vars == <<tbl, cfg, inv, peer, mtbl, minv, call, lim, rt>>
appVars == <<tbl, cfg, inv, peer>>
madVars == <<mtbl, minv>>
quotaVars == <<lim, rt>>

(***************************************************************************)
(* Nullable values                                                         *)
(***************************************************************************)
NULL == <<>>
Some(v) == <<v>>
IsNull(x) == x = <<>>
Val(x) == x[1]

Range(s) == {s[i] : i \in DOMAIN s}
Min2(a, b) == IF a <= b THEN a ELSE b
SetMax(S) == CHOOSE m \in S : \A x \in S : x <= m

(***************************************************************************)
(* Bounds of the model                                                     *)
(***************************************************************************)
NRows == 2
MaxLimit == 2

(***************************************************************************)
(* Configuration of enrich_app.py (environment defaults)                   *)
(***************************************************************************)
QUALITY_MIN_CONF == 60
DEFAULT_CAPACITY == 200
DEFAULT_AVG_TICKET_PRICE == 2500
DEFAULT_EVENTS_PER_YEAR == 20
DEFAULT_LOAD_FACTOR == 70

(***************************************************************************)
(* round(x, 2): x = n/d of a cent, rounded to the nearest cent, ties to    *)
(* the even cent (Python's round).                                         *)
(***************************************************************************)
RoundHalfEven(n, d) ==
    LET q == n \div d
        r == n % d
    IN  IF 2 * r < d THEN q
        ELSE IF 2 * r > d THEN q + 1
        ELSE IF q % 2 = 0 THEN q ELSE q + 1

(* baseline_revenue: None falls back to the configured default; the        *)
(* product price * capacity * events * load factor, rounded to 2 places.   *)
(* Arguments are nullable; price is in cents, the result in cents.         *)
baseline_revenue_noload(avg_price, capacity, freq_per_year) ==
    LET p == IF IsNull(avg_price) THEN DEFAULT_AVG_TICKET_PRICE ELSE Val(avg_price)
        c == IF IsNull(capacity) THEN DEFAULT_CAPACITY ELSE Val(capacity)
        f == IF IsNull(freq_per_year) THEN DEFAULT_EVENTS_PER_YEAR ELSE Val(freq_per_year)
    IN  Some(p * c * f)

baseline_revenue(avg_price, capacity, freq_per_year) ==
    LET p == IF IsNull(avg_price) THEN DEFAULT_AVG_TICKET_PRICE ELSE Val(avg_price)
        c == IF IsNull(capacity) THEN DEFAULT_CAPACITY ELSE Val(capacity)
        f == IF IsNull(freq_per_year) THEN DEFAULT_EVENTS_PER_YEAR ELSE Val(freq_per_year)
    IN  Some(RoundHalfEven(p * c * f * DEFAULT_LOAD_FACTOR, 100))

(***************************************************************************)
(* The OUTPUT table of enrich_app.py                                       *)
(***************************************************************************)
Rows == 1..NRows

SqlFallbackTag == [kind |-> "sql-fallback", conf |-> 0, cur |-> ""]
GptTag(kind, conf, currency) ==
    [kind |-> kind, conf |-> conf, cur |-> IF IsNull(currency) THEN "" ELSE Val(currency)]

(* revenues_source LIKE 'sql-fallback%' (NULL gives unknown, hence no row) *)
LikeSqlFallback(src) == ~IsNull(src) /\ Val(src).kind = "sql-fallback"

RowTemplates == <<
    (* never touched *)
    [avg_ticket_price |-> NULL, capacity |-> NULL, frequency_per_year |-> NULL,
     revenues |-> NULL, revenues_source |-> NULL, rfp_detected |-> NULL,
     enrichment_status |-> NULL, enriched_at |-> NULL, last_updated |-> NULL],
    (* locked, every business field missing *)
    [avg_ticket_price |-> NULL, capacity |-> NULL, frequency_per_year |-> NULL,
     revenues |-> NULL, revenues_source |-> NULL, rfp_detected |-> NULL,
     enrichment_status |-> Some("LOCKED"), enriched_at |-> NULL, last_updated |-> NULL],
    (* locked, with a fallback revenue *)
    [avg_ticket_price |-> Some(2000), capacity |-> Some(300), frequency_per_year |-> Some(20),
     revenues |-> Some(8400000), revenues_source |-> Some(SqlFallbackTag), rfp_detected |-> NULL,
     enrichment_status |-> Some("LOCKED"), enriched_at |-> NULL, last_updated |-> Some(1)],
    (* zero revenue, no usable baseline (capacity 0) *)
    [avg_ticket_price |-> Some(2000), capacity |-> Some(0), frequency_per_year |-> NULL,
     revenues |-> Some(0), revenues_source |-> NULL, rfp_detected |-> NULL,
     enrichment_status |-> NULL, enriched_at |-> NULL, last_updated |-> Some(1)],
    (* fallback revenue written by an earlier pass *)
    [avg_ticket_price |-> Some(2000), capacity |-> Some(300), frequency_per_year |-> Some(20),
     revenues |-> Some(8400000), revenues_source |-> Some(SqlFallbackTag), rfp_detected |-> NULL,
     enrichment_status |-> Some("ENRICHED_BASELINE"), enriched_at |-> NULL, last_updated |-> Some(1)],
    (* reviewed by an earlier quality pass *)
    [avg_ticket_price |-> Some(2000), capacity |-> Some(300), frequency_per_year |-> NULL,
     revenues |-> Some(5000000), revenues_source |-> Some(GptTag("GPT_QUALITY", 90, NULL)),
     rfp_detected |-> Some(FALSE),
     enrichment_status |-> Some("QUALITY_REVIEWED"), enriched_at |-> Some(1), last_updated |-> Some(2)]
>>

(* How the rows are keyed: every row has its own id; or no row has an id   *)
(* and names are distinct; or no row has an id and all share one name.     *)
Keyings == {"id", "name", "shared_name"}

MkRow(k, keying, t) ==
    [id |-> IF keying = "id" THEN Some(k) ELSE NULL,
     name |-> IF keying = "shared_name" THEN Some(1) ELSE Some(k),
     avg_ticket_price |-> t.avg_ticket_price, capacity |-> t.capacity,
     frequency_per_year |-> t.frequency_per_year,
     revenues |-> t.revenues, revenues_source |-> t.revenues_source,
     rfp_detected |-> t.rfp_detected, enrichment_status |-> t.enrichment_status,
     enriched_at |-> t.enriched_at, last_updated |-> t.last_updated]

(***************************************************************************)
(* Row selection                                                           *)
(***************************************************************************)
NotLocked(r) ==
    IsNull(r.enrichment_status) \/ Val(r.enrichment_status) # "LOCKED"

(* WHERE of pick_enrichment_candidates *)
EnrichWhere(r, backfill) ==
    /\ NotLocked(r)
    /\ IF backfill
       THEN IsNull(r.revenues) \/ Val(r.revenues) = 0 \/ LikeSqlFallback(r.revenues_source)
       ELSE IsNull(r.revenues) \/ Val(r.revenues) = 0

(* WHERE of pick_quality_candidates *)
QualityWhere(r, force_all) ==
    /\ NotLocked(r)
    /\ ~IsNull(r.revenues)
    /\ (force_all \/ LikeSqlFallback(r.revenues_source) \/ IsNull(r.rfp_detected))

(* ASC NULLS FIRST: NULL sorts as 0, ranks start at 1 *)
TsKey(ts) == IF IsNull(ts) THEN 0 ELSE Val(ts)

(* ORDER BY enriched_at ASC NULLS FIRST, last_updated ASC NULLS FIRST *)
EnrichOrder(a, b) ==
    \/ TsKey(a.enriched_at) < TsKey(b.enriched_at)
    \/ /\ TsKey(a.enriched_at) = TsKey(b.enriched_at)
       /\ TsKey(a.last_updated) <= TsKey(b.last_updated)

(* ORDER BY last_updated ASC NULLS FIRST *)
QualityOrder(a, b) == TsKey(a.last_updated) <= TsKey(b.last_updated)

(* the ORDER BY of the enrich selection or of the quality selection *)
OrderLeq(order, a, b) ==
    IF order = "enrich" THEN EnrichOrder(a, b) ELSE QualityOrder(a, b)

(* a variant without the LIMIT *)
OrderLimit_all(t, cands, order, n) ==
    LET len == Cardinality(cands)
    IN  {s \in [1..len -> cands] :
            /\ \A i, j \in 1..len : i # j => s[i] # s[j]
            /\ \A i, j \in 1..len : i < j => OrderLeq(order, t[s[i]], t[s[j]])}

(* ORDER BY ... LIMIT n over the candidate positions: every sequence of    *)
(* min(n, #candidates) distinct candidates that is sorted and leaves out   *)
(* no candidate that sorts strictly before a chosen one.  Ties are         *)
(* resolved arbitrarily, as the warehouse does.                            *)
OrderLimit(t, cands, order, n) ==
    LET len == Min2(n, Cardinality(cands))
    IN  {s \in [1..len -> cands] :
            /\ \A i, j \in 1..len : i # j => s[i] # s[j]
            /\ \A i, j \in 1..len : i < j => OrderLeq(order, t[s[i]], t[s[j]])
            /\ \A c \in cands \ Range(s) : \A i \in 1..len : OrderLeq(order, t[s[i]], t[c])}

(* dict(r) of a selected row: the SELECT list, and k, the row it came from *)
Snapshot(t, k) ==
    [k |-> k, id |-> t[k].id, name |-> t[k].name,
     avg_ticket_price |-> t[k].avg_ticket_price, capacity |-> t[k].capacity,
     frequency_per_year |-> t[k].frequency_per_year,
     revenues |-> t[k].revenues, revenues_source |-> t[k].revenues_source,
     rfp_detected |-> t[k].rfp_detected]

(* a variant that leaves out the rows another invocation still holds *)
pick_enrichment_candidates_unclaimed(t, limit, backfill) ==
    LET held(n) == IF n.pc = "loop" THEN {n.rows[j].k : j \in n.i..Len(n.rows)} ELSE {}
        cands == {k \in Rows : EnrichWhere(t[k], backfill)} \ (held(inv) \cup held(peer))
    IN  {[i \in DOMAIN s |-> Snapshot(t, s[i])] : s \in OrderLimit(t, cands, "enrich", limit)}

pick_enrichment_candidates(t, limit, backfill) ==
    LET cands == {k \in Rows : EnrichWhere(t[k], backfill)}
    IN  {[i \in DOMAIN s |-> Snapshot(t, s[i])] : s \in OrderLimit(t, cands, "enrich", limit)}

pick_quality_candidates(t, limit, force_all) ==
    LET cands == {k \in Rows : QualityWhere(t[k], force_all)}
    IN  {[i \in DOMAIN s |-> Snapshot(t, s[i])] : s \in OrderLimit(t, cands, "quality", limit)}

(***************************************************************************)
(* The LLM (oai_json and the two gpt_* wrappers)                           *)
(*                                                                         *)
(* A JSON value is [t, v]: t is its JSON type and v its number (a boolean  *)
(* has v = 1 for true and 0 for false, as Python's bool is an int).        *)
(***************************************************************************)
JMissing == [t |-> "missing", v |-> 0]
JStr == [t |-> "str", v |-> 0]
JBool(b) == [t |-> "bool", v |-> IF b THEN 1 ELSE 0]
JNum(n) == [t |-> "num", v |-> n]

(* isinstance(x, (int, float)): true of a JSON number and of a boolean *)
IsIntOrFloat(j) == j.t \in {"num", "bool"}

(* float(x), in units of 1/scale *)
FloatOf(j, scale) == IF j.t = "bool" THEN j.v * scale ELSE j.v

LLMAnswer(rev, conf, cur, rfp) ==
    [ok |-> TRUE, revenue |-> rev, confidence |-> conf, currency |-> cur, rfp_detected |-> rfp]

(* oai_json gives (None, error) on any exception and on empty or           *)
(* unparseable output, else the parsed object.  The answers tried: a       *)
(* revenue in thousandths (50000.000, 0.004, 0, -1.000, a string, absent), *)
(* a confidence in hundredths (0.60, 0.59, true, a string, absent), a      *)
(* currency and rfp_detected (true, false, absent).                        *)
LLMAnswers == {
    [ok |-> FALSE, revenue |-> JMissing, confidence |-> JMissing,
     currency |-> NULL, rfp_detected |-> JMissing],
    LLMAnswer(JNum(50000000), JNum(60), Some("EUR"), JBool(TRUE)),
    LLMAnswer(JNum(50000000), JNum(59), NULL, JBool(FALSE)),
    LLMAnswer(JNum(50000000), JMissing, NULL, JMissing),
    LLMAnswer(JNum(50000000), JStr, NULL, JMissing),
    LLMAnswer(JNum(50000000), JBool(TRUE), NULL, JMissing),
    LLMAnswer(JNum(4), JNum(60), NULL, JMissing),
    LLMAnswer(JNum(0), JNum(60), NULL, JMissing),
    LLMAnswer(JNum(0 - 1000), JNum(60), NULL, JMissing),
    LLMAnswer(JStr, JNum(60), NULL, JMissing),
    LLMAnswer(JMissing, JNum(60), NULL, JBool(TRUE))
}

(* rev_val: float(revenue) if it is an int or float, truthy and > 0 *)
RevVal(ans) ==
    IF ans.ok /\ IsIntOrFloat(ans.revenue) /\ FloatOf(ans.revenue, 1000) > 0
    THEN Some(FloatOf(ans.revenue, 1000)) ELSE NULL

(* conf_val: float(confidence) if it is an int or float *)
ConfVal(ans) ==
    IF ans.ok /\ IsIntOrFloat(ans.confidence)
    THEN Some(FloatOf(ans.confidence, 100)) ELSE NULL

(* rfp_val: rfp_detected if it is a bool *)
RfpVal(ans) ==
    IF ans.ok /\ ans.rfp_detected.t = "bool" THEN Some(ans.rfp_detected.v = 1) ELSE NULL

CurVal(ans) == IF ans.ok THEN ans.currency ELSE NULL

(* the acceptance test of enrich and of quality *)
Accepted(ans) ==
    /\ ~IsNull(RevVal(ans))
    /\ ~IsNull(ConfVal(ans))
    /\ Val(ConfVal(ans)) >= QUALITY_MIN_CONF

(***************************************************************************)
(* update_row of enrich_app.py                                             *)
(***************************************************************************)
(* _pk_where: id = @pk_id when the row has an id, else name = @pk_name *)
PkMatches(r, row) ==
    IF ~IsNull(row.id) THEN r.id = row.id
    ELSE ~IsNull(row.name) /\ r.name = row.name

(* timestamps as ranks: the values in use, renumbered 1, 2, ... in order *)
Normalise(t) ==
    LET used == {Val(t[k].last_updated) : k \in {j \in DOMAIN t : ~IsNull(t[j].last_updated)}}
        rank(v) == Cardinality({w \in used : w <= v})
    IN  [k \in DOMAIN t |->
            IF IsNull(t[k].last_updated) THEN t[k]
            ELSE [t[k] EXCEPT !.last_updated = Some(rank(Val(t[k].last_updated)))]]

(* CURRENT_TIMESTAMP(): later than every stored last_updated *)
Now(t) ==
    1 + SetMax({0} \cup {TsKey(t[k].last_updated) : k \in DOMAIN t})

(* UPDATE ... SET last_updated = CURRENT_TIMESTAMP(), <col> = <val>, ...   *)
(* WHERE <pk>: the columns of updates and last_updated, nothing else.      *)
ApplySets_clobber(r, updates, now) ==
    [c \in DOMAIN r |->
        IF c = "last_updated" THEN Some(now)
        ELSE IF c \in DOMAIN updates THEN updates[c]
        ELSE IF c \in {"id", "name"} THEN r[c]
        ELSE NULL]

ApplySets(r, updates, now) ==
    [c \in DOMAIN r |->
        IF c = "last_updated" THEN Some(now)
        ELSE IF c \in DOMAIN updates THEN updates[c]
        ELSE r[c]]

update_row(t, row, updates) ==
    Normalise([k \in DOMAIN t |->
        IF PkMatches(t[k], row) THEN ApplySets(t[k], updates, Now(t)) ELSE t[k]])

(* the statement as issued, kept for inspection, with the LLM's revenue    *)
(* and confidence when the statement carries an LLM estimate               *)
Statement(row, updates, ans, accepted) ==
    <<[k |-> row.k, cols |-> DOMAIN updates \cup {"last_updated"}, updates |-> updates,
       llm_revenue |-> IF accepted THEN ans.revenue ELSE JMissing,
       llm_confidence |-> IF accepted THEN ans.confidence ELSE JMissing]>>

(***************************************************************************)
(* The handlers of enrich_app.py                                           *)
(***************************************************************************)
Idle ==
    [op |-> "none", pc |-> "idle", dry |-> FALSE, flag |-> FALSE, limit |-> 0,
     rows |-> <<>>, i |-> 1, processed |-> 0, wrote_gpt |-> 0, wrote_fallback |-> 0,
     skipped |-> 0, improved |-> 0, only_rfp |-> 0, issued |-> <<>>, resp |-> <<>>]

(* enrich: the per-row decision.  The result is the updates to write (or   *)
(* <<>> for a skip) and the counter to bump.                               *)
EnrichUpdates_gpt(ans) ==
    [revenues |-> Some(RoundHalfEven(Val(RevVal(ans)), 10)),
     revenues_source |-> Some(GptTag("GPT_ENRICH", Val(ConfVal(ans)), CurVal(ans))),
     enrichment_status |-> Some("ENRICHED"),
     enriched_at |-> NULL]

EnrichUpdates_fallback(baseline_val) ==
    [revenues |-> baseline_val,
     revenues_source |-> Some(SqlFallbackTag),
     enrichment_status |-> Some("ENRICHED_BASELINE")]

(* "elif BACKFILL_REVENUES and baseline_val and r.get('revenues') in (None, 0)" *)
FallbackApplies(r, baseline_val) ==
    /\ cfg.BACKFILL_REVENUES
    /\ ~IsNull(baseline_val) /\ Val(baseline_val) # 0
    /\ (IsNull(r.revenues) \/ Val(r.revenues) = 0)

(* The handler enrich, run by one invocation: me is the invocation before  *)
(* the step and next the invocation after it.                              *)
(* GET / : request parameters and the selection *)
enrich_select(me, next) ==
    /\ me.pc = "idle"
    /\ \E limit \in 0..MaxLimit, dry \in BOOLEAN, backfill \in BOOLEAN :
         \E rows \in pick_enrichment_candidates(tbl, limit, backfill) :
            next = [Idle EXCEPT !.op = "enrich", !.pc = "loop", !.dry = dry,
                                !.flag = backfill, !.limit = limit, !.rows = rows]

(* one iteration of "for r in rows" of enrich; the UPDATE may raise, and   *)
(* the exception leaves the handler (HTTP 500)                             *)
enrich_row(me, next) ==
    /\ me.op = "enrich" /\ me.pc = "loop" /\ me.i <= Len(me.rows)
    /\ \E ans \in LLMAnswers, writeFails \in BOOLEAN :
         LET r == me.rows[me.i]
             baseline_val == baseline_revenue(r.avg_ticket_price, r.capacity, r.frequency_per_year)
             branch == IF Accepted(ans) THEN "gpt"
                       ELSE IF FallbackApplies(r, baseline_val) THEN "fallback"
                       ELSE "skip"
             updates == IF branch = "gpt" THEN EnrichUpdates_gpt(ans)
                        ELSE EnrichUpdates_fallback(baseline_val)
             writes == branch # "skip" /\ ~me.dry
             counted == [me EXCEPT !.processed = @ + 1, !.i = @ + 1]
         IN  /\ writeFails => writes
             /\ IF writes /\ writeFails
                THEN /\ next = [counted EXCEPT !.pc = "done", !.resp = <<[code |-> 500]>>]
                     /\ tbl' = tbl
                ELSE /\ next = [counted EXCEPT
                                  !.wrote_gpt = IF branch = "gpt" THEN @ + 1 ELSE @,
                                  !.wrote_fallback = IF branch = "fallback" THEN @ + 1 ELSE @,
                                  !.skipped = IF branch = "skip" THEN @ + 1 ELSE @,
                                  !.issued = IF writes THEN Statement(r, updates, ans, Accepted(ans))
                                             ELSE @]
                     /\ tbl' = IF writes THEN update_row(tbl, r, updates) ELSE tbl

enrich_return(me, next) ==
    /\ me.op = "enrich" /\ me.pc = "loop" /\ me.i > Len(me.rows)
    /\ next = [me EXCEPT !.pc = "done",
                 !.resp = <<[code |-> 200, status |-> IF me.dry THEN "DRY_OK" ELSE "OK",
                             processed |-> me.processed, wrote_gpt |-> me.wrote_gpt,
                             wrote_fallback |-> me.wrote_fallback, skipped |-> me.skipped]>>]

EnrichStart ==
    /\ enrich_select(inv, inv')
    /\ UNCHANGED <<tbl, cfg, peer, madVars, call, quotaVars>>

EnrichRow ==
    /\ enrich_row(inv, inv')
    /\ UNCHANGED <<cfg, peer, madVars, call, quotaVars>>

EnrichReturn ==
    /\ enrich_return(inv, inv')
    /\ UNCHANGED <<tbl, cfg, peer, madVars, call, quotaVars>>

(* the caller repeats GET / with the parameters of the request before *)
EnrichRepeat ==
    /\ inv.op = "enrich" /\ inv.pc = "done"
    /\ \E rows \in pick_enrichment_candidates(tbl, inv.limit, inv.flag) :
          inv' = [Idle EXCEPT !.op = "enrich", !.pc = "loop", !.dry = inv.dry,
                              !.flag = inv.flag, !.limit = inv.limit, !.rows = rows]
    /\ UNCHANGED <<tbl, cfg, peer, madVars, call, quotaVars>>

(* a second invocation of enrich, running against the same table while    *)
(* the first is in progress: the service keeps no state between requests   *)
(* and takes no lock                                                       *)
PeerStart ==
    /\ enrich_select(peer, peer')
    /\ UNCHANGED <<tbl, cfg, inv, madVars, call, quotaVars>>

PeerRow ==
    /\ enrich_row(peer, peer')
    /\ UNCHANGED <<cfg, inv, madVars, call, quotaVars>>

PeerReturn ==
    /\ enrich_return(peer, peer')
    /\ UNCHANGED <<tbl, cfg, inv, madVars, call, quotaVars>>

(* quality: the updates of one row *)
QualityUpdates_revenue(ans) ==
    [revenues |-> Some(RoundHalfEven(Val(RevVal(ans)), 10)),
     revenues_source |-> Some(GptTag("GPT_QUALITY", Val(ConfVal(ans)), CurVal(ans))),
     enrichment_status |-> Some("QUALITY_REVIEWED")]

RfpChanged(r, ans) == ~IsNull(RfpVal(ans)) /\ RfpVal(ans) # r.rfp_detected

QualityUpdates(r, ans) ==
    LET u1 == IF Accepted(ans) THEN QualityUpdates_revenue(ans) ELSE <<>>
    IN  IF RfpChanged(r, ans)
        THEN [c \in DOMAIN u1 \cup {"rfp_detected"} |->
                 IF c = "rfp_detected" THEN RfpVal(ans) ELSE u1[c]]
        ELSE u1

(* GET /quality *)
QualityStart ==
    /\ inv.pc = "idle"
    /\ \E limit \in 0..MaxLimit, dry \in BOOLEAN, force_all \in BOOLEAN :
         \E rows \in pick_quality_candidates(tbl, limit, force_all) :
            inv' = [Idle EXCEPT !.op = "quality", !.pc = "loop", !.dry = dry,
                                !.flag = force_all, !.limit = limit, !.rows = rows]
    /\ UNCHANGED <<tbl, cfg, peer, madVars, call, quotaVars>>

QualityRow ==
    /\ inv.op = "quality" /\ inv.pc = "loop" /\ inv.i <= Len(inv.rows)
    /\ \E ans \in LLMAnswers, writeFails \in BOOLEAN :
         LET r == inv.rows[inv.i]
             updates == QualityUpdates(r, ans)
             overwrite == Accepted(ans)
             writes == ~inv.dry /\ DOMAIN updates # {}
             counted == [inv EXCEPT !.processed = @ + 1, !.i = @ + 1]
         IN  /\ writeFails => writes
             /\ IF writes /\ writeFails
                THEN /\ inv' = [counted EXCEPT !.pc = "done", !.resp = <<[code |-> 500]>>]
                     /\ tbl' = tbl
                ELSE /\ inv' = [counted EXCEPT
                                  !.improved = IF overwrite THEN @ + 1 ELSE @,
                                  !.only_rfp = IF ~overwrite /\ "rfp_detected" \in DOMAIN updates
                                               THEN @ + 1 ELSE @,
                                  !.skipped = IF ~overwrite /\ "rfp_detected" \notin DOMAIN updates
                                              THEN @ + 1 ELSE @,
                                  !.issued = IF writes THEN Statement(r, updates, ans, Accepted(ans)) ELSE @]
                     /\ tbl' = IF writes THEN update_row(tbl, r, updates) ELSE tbl
    /\ UNCHANGED <<cfg, peer, madVars, call, quotaVars>>

QualityReturn ==
    /\ inv.op = "quality" /\ inv.pc = "loop" /\ inv.i > Len(inv.rows)
    /\ inv' = [inv EXCEPT !.pc = "done",
                 !.resp = <<[code |-> 200, status |-> IF inv.dry THEN "DRY_OK" ELSE "OK",
                             processed |-> inv.processed, improved_revenues |-> inv.improved,
                             rfp_detected_updates |-> inv.only_rfp, skipped |-> inv.skipped]>>]
    /\ UNCHANGED <<tbl, cfg, peer, madVars, call, quotaVars>>

(***************************************************************************)
(* madrid_enricher.py: the performing_arts_madrid table                    *)
(***************************************************************************)
MadFields == {"category", "sub_category", "website", "ticket_vendor", "annual_visitors",
              "capacity_final", "atp", "gtv", "size_segment", "ownership", "rfp"}

MadRow(city, domain, capacity, price, vendor, rest, status) ==
    [city |-> city, domain |-> domain, capacity |-> capacity, avg_ticket_price |-> price,
     category |-> IF rest THEN Some("Theatre") ELSE NULL,
     sub_category |-> IF rest THEN Some("Drama") ELSE NULL,
     website |-> IF rest THEN Some("stored.example") ELSE NULL,
     ticket_vendor |-> vendor,
     annual_visitors |-> IF rest THEN Some(40000) ELSE NULL,
     capacity_final |-> IF rest THEN Some(400) ELSE NULL,
     atp |-> IF rest THEN Some(25) ELSE NULL,
     gtv |-> IF rest THEN Some(1000000) ELSE NULL,
     size_segment |-> IF rest THEN Some("Bronze") ELSE NULL,
     ownership |-> IF rest THEN Some("Private") ELSE NULL,
     rfp |-> IF rest THEN Some("No") ELSE NULL,
     notes |-> NULL, enrichment_status |-> status, last_updated |-> NULL]

MadTemplates == <<
    (* never touched, no hints *)
    MadRow(Some("Madrid"), Some("venue.example"), NULL, NULL, NULL, FALSE, NULL),
    (* locked, every business field missing *)
    MadRow(Some("Madrid"), Some("venue.example"), NULL, NULL, NULL, FALSE, Some("LOCKED")),
    (* only the vendor known, with capacity and price hints *)
    MadRow(Some("Madrid"), Some("venue.example"), Some(300), Some(20), Some("Fever"), FALSE, NULL),
    (* every field known but the vendor *)
    MadRow(Some("Madrid"), NULL, Some(300), Some(20), NULL, TRUE, Some("OK")),
    (* complete *)
    MadRow(Some("Madrid"), Some("venue.example"), Some(300), Some(20), Some("Fever"), TRUE, Some("OK")),
    (* another city *)
    MadRow(Some("Barcelona"), Some("venue.example"), NULL, NULL, NULL, FALSE, NULL)
>>

MadKeyings == {"name", "shared_name"}

MkMadRow(k, keying, t) ==
    [c \in DOMAIN t \cup {"name"} |->
        IF c = "name" THEN (IF keying = "shared_name" THEN Some(1) ELSE Some(k)) ELSE t[c]]

(* WHERE of PENDING *)
PendingWhere_nolock(r) ==
    /\ ~IsNull(r.city) /\ Val(r.city) = "Madrid"
    /\ \E f \in MadFields : IsNull(r[f])

PendingWhere(r) ==
    /\ ~IsNull(r.city) /\ Val(r.city) = "Madrid"
    /\ NotLocked(r)
    /\ \E f \in MadFields : IsNull(r[f])

(* the columns of PENDING that run_batch reads, and k, the row it came from *)
MadSnapshot(t, k) ==
    [k |-> k, name |-> t[k].name, domain |-> t[k].domain, city |-> t[k].city,
     capacity |-> t[k].capacity, avg_ticket_price |-> t[k].avg_ticket_price]

(* PENDING ... LIMIT @limit: no ORDER BY, any min(limit, #pending) rows *)
Pending(t, limit) ==
    LET cands == {k \in DOMAIN t : PendingWhere(t[k])}
        len == Min2(limit, Cardinality(cands))
    IN  {[i \in 1..len |-> MadSnapshot(t, s[i])] :
            s \in {q \in [1..len -> cands] : \A i, j \in 1..len : i # j => q[i] # q[j]}}

(* update_row of madrid_enricher.py: every column of the payload is set,  *)
(* NULL included, for the rows WHERE name = @name AND city = 'Madrid'      *)
MadApply(r, payload, status, now) ==
    [c \in DOMAIN r |->
        IF c \in DOMAIN payload THEN payload[c]
        ELSE IF c = "enrichment_status" THEN Some(status)
        ELSE IF c = "last_updated" THEN Some(now)
        ELSE r[c]]

MadMatches(r, name) ==
    /\ ~IsNull(name) /\ r.name = name
    /\ ~IsNull(r.city) /\ Val(r.city) = "Madrid"

mad_update_row(t, name, payload, status) ==
    Normalise([k \in DOMAIN t |->
        IF MadMatches(t[k], name) THEN MadApply(t[k], payload, status, Now(t)) ELSE t[k]])

(* size_segment *)
size_segment(gtv) ==
    IF IsNull(gtv) THEN NULL
    ELSE IF Val(gtv) >= 20000000 THEN Some("Diamond")
    ELSE IF Val(gtv) >= 4000000 THEN Some("Gold")
    ELSE IF Val(gtv) >= 2000000 THEN Some("Silver")
    ELSE Some("Bronze")

(* Python truthiness of an optional number and of an optional string, and  *)
(* "a or b"                                                                *)
TruthyNum(x) == ~IsNull(x) /\ Val(x) # 0
TruthyStr(x) == ~IsNull(x) /\ Val(x) # ""
OrNum(a, b) == IF TruthyNum(a) THEN a ELSE b
OrStr(a, b) == IF TruthyStr(a) THEN a ELSE b

(* what the scrape of one row yields: choose_vendor's vendor and           *)
(* infer_category_and_subcategory's pair                                    *)
ScrapeResults ==
    {[vendor_from_html |-> NULL, category |-> NULL],
     [vendor_from_html |-> Some("Ticketmaster"), category |-> Some("Venue")]}

(* json.loads(gpt.text): the object's fields after data.get / _num *)
MadData(website, vendor, visitors, capacity, atp, ownership, rfp) ==
    [website |-> website, ticket_vendor |-> vendor, annual_visitors |-> visitors,
     capacity_final |-> capacity, atp |-> atp, ownership |-> ownership, rfp |-> rfp]

MadAnswers == {
    MadData(NULL, NULL, NULL, NULL, NULL, NULL, NULL),
    MadData(Some("llm.example"), Some("Eventbrite"), Some(50000), Some(500), Some(20),
            Some("Public"), Some("Yes")),
    MadData(NULL, Some("Eventbrite"), Some(0), Some(12000), Some(30), NULL, NULL)
}

(* an exception raised inside the try block: where it comes from (the LLM  *)
(* call or the parse of its answer, or the UPDATE), whether it is a        *)
(* rate-limit error of the provider, and whether "429" occurs in str(e).   *)
(* gpt_client.py raises GPTQuotaExceeded("OpenAI rate limit hit") for a    *)
(* rate limit: a rate-limit error whose text holds no "429".               *)
LLMExceptions ==
    {[src |-> "llm", rate_limit |-> FALSE, has429 |-> FALSE],
     [src |-> "llm", rate_limit |-> TRUE, has429 |-> TRUE],
     [src |-> "llm", rate_limit |-> TRUE, has429 |-> FALSE]}
UpdateExceptions == {[src |-> "update", rate_limit |-> FALSE, has429 |-> FALSE]}

(* the ticket_vendor of the success path *)
MergeVendor(data, vendor_from_html) == OrStr(data.ticket_vendor, vendor_from_html)

(* the payload of the success path *)
OkPayload(r, scrape, data) ==
    LET annual_visitors == data.annual_visitors
        capacity_final == OrNum(data.capacity_final, r.capacity)
        atp == OrNum(data.atp, r.avg_ticket_price)
        gtv == IF TruthyNum(annual_visitors) /\ TruthyNum(atp)
               THEN Some(Val(annual_visitors) * Val(atp))
               ELSE IF TruthyNum(capacity_final) /\ TruthyNum(atp)
               THEN Some(Val(capacity_final) * Val(atp)
                         * (IF Val(capacity_final) >= 10000 THEN 25 ELSE 60))
               ELSE NULL
    IN  [category |-> scrape.category, sub_category |-> scrape.category,
         website |-> OrStr(data.website, r.domain),
         ticket_vendor |-> MergeVendor(data, scrape.vendor_from_html),
         annual_visitors |-> annual_visitors, capacity_final |-> capacity_final,
         atp |-> atp, gtv |-> gtv, size_segment |-> size_segment(gtv),
         ownership |-> OrStr(data.ownership, Some("Unknown")),
         rfp |-> OrStr(data.rfp, Some("Unknown")),
         notes |-> Some("")]

(* the payload written with status ERROR *)
ErrorPayload(r, scrape) ==
    [category |-> scrape.category, sub_category |-> scrape.category,
     website |-> r.domain, ticket_vendor |-> scrape.vendor_from_html,
     annual_visitors |-> NULL, capacity_final |-> r.capacity, atp |-> r.avg_ticket_price,
     gtv |-> NULL, size_segment |-> NULL, ownership |-> NULL, rfp |-> NULL,
     notes |-> Some("error")]

MadStatement(r, scrape, payload, status) ==
    <<[k |-> r.k, payload |-> payload, status |-> status,
       vendor_from_html |-> scrape.vendor_from_html]>>

(* the request: its position, parameters, the selected rows, the loop     *)
(* index, the counter "processed", len(out) as items, the rows that went   *)
(* through the try block without an exception as completed, the last       *)
(* UPDATE issued, the last exception caught and the response               *)
MadIdle ==
    [pc |-> "idle", dry |-> FALSE, limit |-> 0, rows |-> <<>>, i |-> 1,
     processed |-> 0, items |-> 0, completed |-> 0, issued |-> <<>>, raised |-> <<>>, resp |-> <<>>]

(* the service is not deployed *)
MadOff == [MadIdle EXCEPT !.pc = "off"]

(* GET / of madrid_enricher.py: request parameters and the PENDING query *)
MadStart ==
    /\ minv.pc = "idle"
    /\ \E limit \in 0..MaxLimit, dry \in BOOLEAN :
         \E rows \in Pending(mtbl, limit) :
            minv' = [MadIdle EXCEPT !.pc = "loop", !.dry = dry, !.limit = limit, !.rows = rows]
    /\ UNCHANGED <<mtbl, cfg, tbl, inv, peer, call, quotaVars>>

(* a variant that writes the ERROR row whether the run is dry or not *)
MadExcept_writes(r, scrape, e) ==
    /\ minv' = [minv EXCEPT !.i = @ + 1, !.items = @ + 1, !.raised = <<e>>,
                            !.issued = MadStatement(r, scrape, ErrorPayload(r, scrape), "ERROR")]
    /\ mtbl' = mad_update_row(mtbl, r.name, ErrorPayload(r, scrape), "ERROR")

(* "except Exception as e" of run_batch, entered with exception e *)
MadExcept(r, scrape, e) ==
    IF e.has429 /\ cfg.STOP_ON_429
    THEN /\ minv' = [minv EXCEPT !.pc = "done", !.raised = <<e>>,
                       !.resp = <<[code |-> 429, status |-> "stopped_on_quota",
                                   processed |-> minv.processed]>>]
         /\ mtbl' = mtbl
    ELSE IF minv.dry
    THEN /\ minv' = [minv EXCEPT !.i = @ + 1, !.items = @ + 1, !.raised = <<e>>]
         /\ mtbl' = mtbl
    ELSE \E errorWriteFails \in BOOLEAN :
         IF errorWriteFails
         THEN /\ minv' = [minv EXCEPT !.pc = "done", !.raised = <<e>>,
                            !.resp = <<[code |-> 500]>>]
              /\ mtbl' = mtbl
         ELSE /\ minv' = [minv EXCEPT !.i = @ + 1, !.items = @ + 1, !.raised = <<e>>,
                            !.issued = MadStatement(r, scrape, ErrorPayload(r, scrape), "ERROR")]
              /\ mtbl' = mad_update_row(mtbl, r.name, ErrorPayload(r, scrape), "ERROR")

(* one iteration of "for r in rows": the LLM call or the parse raises *)
MadRowRaises ==
    /\ minv.pc = "loop" /\ minv.i <= Len(minv.rows)
    /\ \E scrape \in ScrapeResults, e \in LLMExceptions :
         MadExcept(minv.rows[minv.i], scrape, e)
    /\ UNCHANGED <<cfg, tbl, inv, peer, call, quotaVars>>

(* one iteration: the LLM answers; dry lists the row, else the row is      *)
(* written with status OK and counted                                      *)
MadRowOk ==
    /\ minv.pc = "loop" /\ minv.i <= Len(minv.rows)
    /\ \E scrape \in ScrapeResults, data \in MadAnswers :
         LET r == minv.rows[minv.i]
             payload == OkPayload(r, scrape, data)
         IN  IF minv.dry
             THEN /\ minv' = [minv EXCEPT !.i = @ + 1, !.items = @ + 1, !.raised = <<>>,
                                !.completed = @ + 1]
                  /\ mtbl' = mtbl
             ELSE /\ minv' = [minv EXCEPT !.i = @ + 1, !.items = @ + 1, !.raised = <<>>,
                                !.processed = @ + 1, !.completed = @ + 1,
                                !.issued = MadStatement(r, scrape, payload, "OK")]
                  /\ mtbl' = mad_update_row(mtbl, r.name, payload, "OK")
    /\ UNCHANGED <<cfg, tbl, inv, peer, call, quotaVars>>

(* one iteration: the UPDATE with status OK raises inside the try block *)
MadRowWriteFails ==
    /\ minv.pc = "loop" /\ minv.i <= Len(minv.rows) /\ ~minv.dry
    /\ \E scrape \in ScrapeResults, e \in UpdateExceptions :
         MadExcept(minv.rows[minv.i], scrape, e)
    /\ UNCHANGED <<cfg, tbl, inv, peer, call, quotaVars>>

MadReturn ==
    /\ minv.pc = "loop" /\ minv.i > Len(minv.rows)
    /\ minv' = [minv EXCEPT !.pc = "done",
                  !.resp = <<[code |-> 200, status |-> "ok", processed |-> minv.processed]>>]
    /\ UNCHANGED <<mtbl, cfg, tbl, inv, peer, call, quotaVars>>

(***************************************************************************)
(* extractors.py: the capacity extractor                                   *)
(*                                                                         *)
(* A page text is a sequence of mentions, each a keyword phrase with a     *)
(* number: "capacity: N", "capacité N", "capacidad N", "aforo N",          *)
(* "seating capacity: N", "N seats" and "N-seat".                          *)
(***************************************************************************)
MaxMentions == 2

(* the phrases that occur in the texts tried *)
MentionKinds == {"capacity", "aforo", "seating capacity", "seats", "N-seat"}

(* one digit; below the range; the ends of the range; above it; 7 digits *)
MentionNumbers == {5, 19, 20, 120, 450, 100000, 100001, 1000000}

Mentions == [kw : MentionKinds, n : MentionNumbers]

Texts == UNION {[1..len -> Mentions] : len \in 0..MaxMentions}

(* _CAPACITY_PATTERNS, in order: the keyword phrases each pattern matches. *)
(* "\bcapacity" also matches inside "seating capacity"; "N-seat" matches   *)
(* none ("seats|places|sitze|plazas" after optional spaces).               *)
CapacityPatterns == <<
    {"capacity", "seating capacity"},
    {"capacite"},
    {"capacidad"},
    {"aforo"},
    {"seating capacity"},
    {"seats"}
>>

(* (\d{2,6})\b: two to six digits, not followed by another digit *)
DigitsMatch(n) == 10 <= n /\ n <= 999999

PatternMatches(i, m) == m.kw \in CapacityPatterns[i] /\ DigitsMatch(m.n)

(* rx.search(t): the first match of pattern i in the text, if any *)
FirstMatch(i, text) ==
    LET hits == {j \in DOMAIN text : PatternMatches(i, text[j])}
    IN  IF hits = {} THEN NULL
        ELSE Some(text[CHOOSE j \in hits : \A h \in hits : j <= h].n)

InRange_any(val) == val = val

InRange(val) == 20 <= val /\ val <= 100000

(* for rx in _CAPACITY_RX: the first pattern whose first match is in range *)
RECURSIVE ScanPatterns(_, _)
ScanPatterns(i, text) ==
    IF i > Len(CapacityPatterns) THEN NULL
    ELSE LET m == FirstMatch(i, text)
         IN  IF ~IsNull(m) /\ InRange(Val(m)) THEN m
             ELSE ScanPatterns(i + 1, text)

extract_capacity_from_text(text) == ScanPatterns(1, text)

(***************************************************************************)
(* extractors.py: enrich_from_domain                                       *)
(*                                                                         *)
(* A fetched page is what the three extractors find on it: the vendor and  *)
(* its evidence (detect_vendor), the average price in cents                *)
(* (extract_average_price_from_soup) and the page text (capacity).         *)
(***************************************************************************)
PageTexts == {<<>>, <<[kw |-> "capacity", n |-> 450]>>, <<[kw |-> "seats", n |-> 19]>>}

VendorFinds == {[vendor |-> NULL, v_src |-> NULL],
                [vendor |-> Some("Ticketmaster"), v_src |-> Some("href")],
                [vendor |-> Some("Fever"), v_src |-> NULL]}

(* the landing page: none (no candidate path answered with HTML), or a page *)
NoPage == [ok |-> FALSE, find |-> [vendor |-> NULL, v_src |-> NULL], price |-> NULL, text |-> <<>>]
Pages == [ok : {TRUE}, find : VendorFinds, price : {NULL, Some(1500)}, text : PageTexts]

(* a secondary page: a failed request, or a page with a price and a text *)
ExtraPages == {[ok |-> FALSE, price |-> NULL, text |-> <<>>]}
              \cup [ok : {TRUE}, price : {NULL, Some(2500)}, text : PageTexts]

EmptyResult ==
    [avg_ticket_price |-> NULL, avg_ticket_price_source |-> NULL,
     capacity |-> NULL, capacity_source |-> NULL,
     ticket_vendor |-> NULL, ticket_vendor_source |-> NULL]

(* the first pass, over the landing page at final_url *)
FirstPass_tagalways(page) ==
    LET cap == extract_capacity_from_text(page.text)
    IN  [avg_ticket_price |-> page.price,
         avg_ticket_price_source |-> Some("final_url"),
         capacity |-> cap,
         capacity_source |-> Some("final_url"),
         ticket_vendor |-> page.find.vendor,
         ticket_vendor_source |-> Some("final_url")]

FirstPass(page) ==
    LET cap == extract_capacity_from_text(page.text)
    IN  [avg_ticket_price |-> page.price,
         avg_ticket_price_source |-> IF IsNull(page.price) THEN NULL ELSE Some("final_url"),
         capacity |-> cap,
         capacity_source |-> IF IsNull(cap) THEN NULL ELSE Some("final_url"),
         ticket_vendor |-> page.find.vendor,
         ticket_vendor_source |->
             IF IsNull(page.find.vendor) THEN NULL
             ELSE IF TruthyStr(page.find.v_src) THEN page.find.v_src ELSE Some("final_url")]

(* one secondary page: fill what is still missing *)
ExtraPass(result, page, url) ==
    IF ~page.ok THEN result
    ELSE LET c == extract_capacity_from_text(page.text)
             r1 == IF IsNull(result.avg_ticket_price) /\ ~IsNull(page.price)
                   THEN [result EXCEPT !.avg_ticket_price = page.price,
                                       !.avg_ticket_price_source = Some(url)]
                   ELSE result
         IN  IF IsNull(r1.capacity) /\ ~IsNull(c)
             THEN [r1 EXCEPT !.capacity = c, !.capacity_source = Some(url)]
             ELSE r1

(* the URLs of the secondary pages, in the order tried *)
ExtraUrls == <<"extra_url_1", "extra_url_2", "extra_url_3">>

Complete(result) == ~IsNull(result.avg_ticket_price) /\ ~IsNull(result.capacity)

(* "for path in extra[:3]", with the break once both are found *)
RECURSIVE ExtraLoop(_, _, _)
ExtraLoop(result, extras, j) ==
    IF j > Len(extras) THEN result
    ELSE LET r1 == ExtraPass(result, extras[j], ExtraUrls[j])
         IN  IF extras[j].ok /\ Complete(r1) THEN r1
             ELSE ExtraLoop(r1, extras, j + 1)

enrich_from_domain(domain, page, extras) ==
    IF domain = "" \/ ~page.ok THEN EmptyResult
    ELSE LET first == FirstPass(page)
         IN  IF Complete(first) THEN first ELSE ExtraLoop(first, extras, 1)

(* the secondary paths: _CANDIDATE_PATHS without "/" and "/event" *)
ExtraPaths ==
    {"/events", "/tickets", "/billetterie", "/programmation", "/programme", "/agenda",
     "/whats-on", "/calendar", "/cartelera", "/veranstaltungen", "/termine", "/bilhetes",
     "/ingressos", "/evenement", "/evenements"}

(* random.shuffle(extra) followed by extra[:3]: any three distinct paths,  *)
(* in any order                                                            *)
Shuffles ==
    {<<a, b, c>> : a, b, c \in ExtraPaths} \ {q \in {<<a, b, c>> : a, b, c \in ExtraPaths} :
                                                 q[1] = q[2] \/ q[1] = q[3] \/ q[2] = q[3]}

(* a website: what each secondary path answers, the same at every request *)
Websites ==
    LET missing == [ok |-> FALSE, price |-> NULL, text |-> <<>>]
        priced == [ok |-> TRUE, price |-> Some(2500), text |-> <<>>]
        hall == [ok |-> TRUE, price |-> NULL, text |-> <<[kw |-> "capacity", n |-> 450]>>]
    IN  {[p \in ExtraPaths |-> missing],
         [p \in ExtraPaths |-> priced],
         [p \in ExtraPaths |-> IF p = "/tickets" THEN priced ELSE missing],
         [p \in ExtraPaths |-> IF p = "/tickets" THEN priced
                               ELSE IF p = "/agenda" THEN hall ELSE missing]}

(* enrich_from_domain against a website, for one outcome of the shuffle:   *)
(* the pages fetched are those of the three paths picked, and the URL of   *)
(* the j-th page tried is that of the j-th path                            *)
enrich_from_website(domain, page, site, picks) ==
    LET res == enrich_from_domain(domain, page, [j \in DOMAIN ExtraUrls |-> site[picks[j]]])
        url(tag) == IF \E j \in DOMAIN ExtraUrls : tag = Some(ExtraUrls[j])
                    THEN Some(picks[CHOOSE j \in DOMAIN ExtraUrls : tag = Some(ExtraUrls[j])])
                    ELSE tag
    IN  [res EXCEPT !.avg_ticket_price_source = url(@), !.capacity_source = url(@)]

(***************************************************************************)
(* extractors.py: the price extractor                                      *)
(*                                                                         *)
(* A price token of the page text is what _PRICE_RX matches after the      *)
(* currency mark: an integer part and, optionally, a separator with one or *)
(* two decimals.  Amounts are kept in cents.                               *)
(***************************************************************************)
MaxPrices == 3

PriceToken(int, sep, frac, digits) == [int |-> int, sep |-> sep, frac |-> frac, digits |-> digits]

(* €12, €15, €45, €2000, €2,50, €12.5 and €0 *)
PriceTokens == {
    PriceToken(12, "", 0, 0), PriceToken(15, "", 0, 0), PriceToken(45, "", 0, 0),
    PriceToken(2000, "", 0, 0), PriceToken(2, ",", 50, 2), PriceToken(12, ".", 5, 1),
    PriceToken(0, "", 0, 0)
}

(* _to_float_price of a token: a single comma is the decimal mark, a dot   *)
(* is one already; float(num), None unless > 0, rounded to 2 places        *)
to_float_price(token) ==
    LET cents == IF token.sep = "" THEN 100 * token.int
                 ELSE IF token.digits = 1 THEN 100 * token.int + 10 * token.frac
                 ELSE 100 * token.int + token.frac
    IN  IF cents <= 0 THEN NULL ELSE Some(cents)

(* an "offers" entry of a JSON-LD event: its price is a number (taken as   *)
(* it is), a string (through _to_float_price; "1,234.56" does not parse),  *)
(* or absent                                                               *)
OfferNum(cents) == [t |-> "num", cents |-> cents, token |-> PriceToken(0, "", 0, 0), parses |-> TRUE]
OfferStr(token) == [t |-> "str", cents |-> 0, token |-> token, parses |-> TRUE]
OfferBadStr == [t |-> "str", cents |-> 0, token |-> PriceToken(0, "", 0, 0), parses |-> FALSE]
OfferNoPrice == [t |-> "missing", cents |-> 0, token |-> PriceToken(0, "", 0, 0), parses |-> FALSE]

(* the offers of the pages tried *)
JsonLdOffers == {
    <<>>,
    <<OfferNoPrice>>,
    <<OfferBadStr, OfferStr(PriceToken(30, "", 0, 0))>>,
    <<OfferNum(2000), OfferNum(4000)>>,
    <<OfferNum(150000)>>,
    <<OfferNum(0 - 500), OfferNum(0)>>
}

RECURSIVE SeqSum(_)
SeqSum(vals) == IF vals = <<>> THEN 0 ELSE Head(vals) + SeqSum(Tail(vals))

(* the values an offer contributes *)
OfferVals(off) ==
    IF off.t = "num" THEN <<off.cents>>
    ELSE IF off.t = "str" /\ off.parses THEN to_float_price(off.token)
    ELSE <<>>

RECURSIVE prices_from_jsonld(_)
prices_from_jsonld(offers) ==
    IF offers = <<>> THEN <<>>
    ELSE OfferVals(Head(offers)) \o prices_from_jsonld(Tail(offers))

(* every token that converts, in page order; "vals[:50]" *)
RECURSIVE TokenVals(_)
TokenVals(tokens) ==
    IF tokens = <<>> THEN <<>>
    ELSE to_float_price(Head(tokens)) \o TokenVals(Tail(tokens))

prices_from_text(tokens) ==
    LET vals == TokenVals(tokens)
    IN  IF Len(vals) > 50 THEN SubSeq(vals, 1, 50) ELSE vals

(* round(sum(vals) / len(vals), 2) *)
Aggregate_first(vals) == vals[1]

Aggregate(vals) == RoundHalfEven(SeqSum(vals), Len(vals))

(* the values the result is taken from: JSON-LD offers first, the text     *)
(* tokens only when those give nothing                                     *)
PriceVals(offers, tokens) ==
    LET vals == prices_from_jsonld(offers)
    IN  IF vals = <<>> THEN prices_from_text(tokens) ELSE vals

extract_average_price_from_soup(offers, tokens) ==
    LET vals == PriceVals(offers, tokens)
    IN  IF vals = <<>> THEN NULL ELSE Some(Aggregate(vals))

TokenLists == UNION {[1..len -> PriceTokens] : len \in 0..MaxPrices}

(***************************************************************************)
(* vendor_patterns.py: detect_vendor                                       *)
(*                                                                         *)
(* A vendor name is the sequence of its characters.  Each row of           *)
(* _VENDOR_PATTERNS is kept with the URLs, among those tried, that its     *)
(* regular expression matches ("Ingresso Rapido" is written without its    *)
(* accent).                                                                *)
(***************************************************************************)
MaxLinks == 2

VendorPatterns == <<
    (* Ticketmaster *)
    [urls |-> {"ticketmaster.com", "https://www.ticketmaster.com/event/1"},
     vendor |-> <<"T", "i", "c", "k", "e", "t", "m", "a", "s", "t", "e", "r">>],
    (* See Tickets *)
    [urls |-> {"seetickets.com"},
     vendor |-> <<"S", "e", "e", " ", "T", "i", "c", "k", "e", "t", "s">>],
    (* Eventbrite *)
    [urls |-> {"eventbrite.com", "https://www.eventbrite.com/e/2"},
     vendor |-> <<"E", "v", "e", "n", "t", "b", "r", "i", "t", "e">>],
    (* DICE *)
    [urls |-> {"dice.fm"},
     vendor |-> <<"D", "I", "C", "E">>],
    (* Fever *)
    [urls |-> {"feverup.com"},
     vendor |-> <<"F", "e", "v", "e", "r">>],
    (* Ticket Tailor *)
    [urls |-> {"tickettailor.com"},
     vendor |-> <<"T", "i", "c", "k", "e", "t", " ", "T", "a", "i", "l", "o", "r">>],
    (* Eventim *)
    [urls |-> {"eventim.de", "eventim.com.br"},
     vendor |-> <<"E", "v", "e", "n", "t", "i", "m">>],
    (* Ticketek *)
    [urls |-> {"ticketek.com"},
     vendor |-> <<"T", "i", "c", "k", "e", "t", "e", "k">>],
    (* TryBooking *)
    [urls |-> {"trybooking.com"},
     vendor |-> <<"T", "r", "y", "B", "o", "o", "k", "i", "n", "g">>],
    (* Oztix *)
    [urls |-> {"oztix.com.au"},
     vendor |-> <<"O", "z", "t", "i", "x">>],
    (* Resident Advisor *)
    [urls |-> {"ra.co.uk"},
     vendor |-> <<"R", "e", "s", "i", "d", "e", "n", "t", " ", "A", "d", "v", "i", "s", "o", "r">>],
    (* TicketOne *)
    [urls |-> {"ticketone.it"},
     vendor |-> <<"T", "i", "c", "k", "e", "t", "O", "n", "e">>],
    (* Billetto *)
    [urls |-> {"billetto.dk"},
     vendor |-> <<"B", "i", "l", "l", "e", "t", "t", "o">>],
    (* Weezevent *)
    [urls |-> {"weezevent.com"},
     vendor |-> <<"W", "e", "e", "z", "e", "v", "e", "n", "t">>],
    (* Billetweb *)
    [urls |-> {"billetweb.fr"},
     vendor |-> <<"B", "i", "l", "l", "e", "t", "w", "e", "b">>],
    (* Shotgun *)
    [urls |-> {"shotgun.live"},
     vendor |-> <<"S", "h", "o", "t", "g", "u", "n">>],
    (* Yurplan *)
    [urls |-> {"yurplan.com"},
     vendor |-> <<"Y", "u", "r", "p", "l", "a", "n">>],
    (* pass Culture (FR) *)
    [urls |-> {"passculture.app"},
     vendor |-> <<"p", "a", "s", "s", " ", "C", "u", "l", "t", "u", "r", "e", " ", "(", "F", "R", ")">>],
    (* Fnac Spectacles *)
    [urls |-> {"fnacspectacles.com"},
     vendor |-> <<"F", "n", "a", "c", " ", "S", "p", "e", "c", "t", "a", "c", "l", "e", "s">>],
    (* Eventim Light *)
    [urls |-> {"eventim-light.com"},
     vendor |-> <<"E", "v", "e", "n", "t", "i", "m", " ", "L", "i", "g", "h", "t">>],
    (* Reservix / ADticket *)
    [urls |-> {"reservix.de"},
     vendor |-> <<"R", "e", "s", "e", "r", "v", "i", "x", " ", "/", " ", "A", "D", "t", "i", "c", "k", "e", "t">>],
    (* TICKETINO *)
    [urls |-> {"ticketino.com"},
     vendor |-> <<"T", "I", "C", "K", "E", "T", "I", "N", "O">>],
    (* Entradium *)
    [urls |-> {"entradium.com"},
     vendor |-> <<"E", "n", "t", "r", "a", "d", "i", "u", "m">>],
    (* Ticketea *)
    [urls |-> {"ticketea.com"},
     vendor |-> <<"T", "i", "c", "k", "e", "t", "e", "a">>],
    (* Sympla *)
    [urls |-> {"sympla.com.br"},
     vendor |-> <<"S", "y", "m", "p", "l", "a">>],
    (* Ingresso Rapido *)
    [urls |-> {"ingressorapido.com.br"},
     vendor |-> <<"I", "n", "g", "r", "e", "s", "s", "o", " ", "R", "a", "p", "i", "d", "o">>],
    (* Eventim Brasil *)
    [urls |-> {"eventim.com.br"},
     vendor |-> <<"E", "v", "e", "n", "t", "i", "m", " ", "B", "r", "a", "s", "i", "l">>],
    (* Tixly *)
    [urls |-> {"tixly.com"},
     vendor |-> <<"T", "i", "x", "l", "y">>],
    (* eBilet *)
    [urls |-> {"ebilet.pl"},
     vendor |-> <<"e", "B", "i", "l", "e", "t">>],
    (* Bilete.ro *)
    [urls |-> {"bilet.ro"},
     vendor |-> <<"B", "i", "l", "e", "t", "e", ".", "r", "o">>]
>>

(* _TEXT_CLUES: the word looked for in the HTML and the vendor it stands for *)
TextClues == <<
    [word |-> "Ticketmaster", vendor |-> <<"T", "i", "c", "k", "e", "t", "m", "a", "s", "t", "e", "r">>],
    [word |-> "Eventbrite", vendor |-> <<"E", "v", "e", "n", "t", "b", "r", "i", "t", "e">>],
    [word |-> "See Tickets", vendor |-> <<"S", "e", "e", " ", "T", "i", "c", "k", "e", "t", "s">>],
    [word |-> "Weezevent", vendor |-> <<"W", "e", "e", "z", "e", "v", "e", "n", "t">>],
    [word |-> "Billetweb", vendor |-> <<"B", "i", "l", "l", "e", "t", "w", "e", "b">>],
    [word |-> "Fever", vendor |-> <<"F", "e", "v", "e", "r">>],
    [word |-> "DICE", vendor |-> <<"D", "I", "C", "E">>],
    [word |-> "Ticket Tailor", vendor |-> <<"T", "i", "c", "k", "e", "t", " ", "T", "a", "i", "l", "o", "r">>],
    [word |-> "Eventim", vendor |-> <<"E", "v", "e", "n", "t", "i", "m">>],
    [word |-> "Ticketek", vendor |-> <<"T", "i", "c", "k", "e", "t", "e", "k">>],
    [word |-> "Universe", vendor |-> <<"T", "i", "c", "k", "e", "t", "m", "a", "s", "t", "e", "r">>]
>>

(* the canonical name of row i *)
VendorName_reseller(i) == <<"S", "t", "u", "b", "H", "u", "b">>

VendorName(i) == VendorPatterns[i].vendor

(* _match_vendor_from_url: the vendor of the first row whose pattern       *)
(* matches the URL                                                         *)
MatchingRows(url) == {i \in DOMAIN VendorPatterns : url \in VendorPatterns[i].urls}

match_vendor_from_url(url) ==
    LET rows == MatchingRows(url)
    IN  IF rows = {} THEN NULL
        ELSE Some(VendorName(CHOOSE i \in rows : \A j \in rows : i <= j))

(* the first link, in page order, that matches any row *)
FirstMatchingLink(all_links) ==
    LET hits == {k \in DOMAIN all_links : MatchingRows(all_links[k]) # {}}
    IN  IF hits = {} THEN 0 ELSE CHOOSE k \in hits : \A h \in hits : k <= h

(* the first clue, in table order, whose word occurs in the HTML *)
FirstClue(html) ==
    LET hits == {c \in DOMAIN TextClues : TextClues[c].word \in html}
    IN  IF hits = {} THEN 0 ELSE CHOOSE c \in hits : \A h \in hits : c <= h

(* the evidence URL is "https://" + domain, or the link as it is *)
detect_vendor(domain, html, all_links) ==
    IF domain # "" /\ ~IsNull(match_vendor_from_url(domain))
    THEN [vendor |-> match_vendor_from_url(domain), v_src |-> Some([prefix |-> "https://", url |-> domain])]
    ELSE IF FirstMatchingLink(all_links) # 0
    THEN LET href == all_links[FirstMatchingLink(all_links)]
         IN  [vendor |-> match_vendor_from_url(href), v_src |-> Some([prefix |-> "", url |-> href])]
    ELSE IF FirstClue(html) # 0
    THEN [vendor |-> Some(TextClues[FirstClue(html)].vendor), v_src |-> NULL]
    ELSE [vendor |-> NULL, v_src |-> NULL]

(* the inputs tried: the venue's domain (none, its own, a marketplace, or  *)
(* one host of every row), the links of the page and the clue words of its *)
(* HTML (an empty HTML has none)                                           *)
DetectVendorArgs ==
    LET LinkUrls  == {"https://www.ticketmaster.com/event/1", "https://www.eventbrite.com/e/2",
                      "https://www.viagogo.com/x", "https://venue.example/about"}
        Hosts     == UNION {VendorPatterns[i].urls : i \in DOMAIN VendorPatterns} \ LinkUrls
        Domains   == {"", "venue.example", "viagogo.com", "stubhub.com"} \cup Hosts
        HtmlTexts == {{}, {"Fever"}, {"Eventbrite", "Universe"}}
        LinkLists == UNION {[1..len -> LinkUrls] : len \in 0..MaxLinks}
    IN  Domains \X HtmlTexts \X LinkLists

(***************************************************************************)
(* The LLM call wrappers: gpt_client.py (enrich_with_gpt), the top-level   *)
(* gpt_client.py (call_gpt) and enrich_app.py (oai_json)                   *)
(*                                                                         *)
(* What the provider's client does on one call: it replies (with a JSON    *)
(* object, with an empty text, or with a text that holds no JSON), or it   *)
(* raises: a RateLimitError, an APIError with a status code (0 for an      *)
(* APIError without one, as a connection error has), or an exception of    *)
(* another class.                                                          *)
(***************************************************************************)
(* A value of the JSON object the model answers with: a key may be missing, *)
(* null, a number (kept in hundredths), NaN, or a string.                  *)
AnsMissing == [t |-> "missing", n |-> 0, s |-> ""]
AnsNull == [t |-> "null", n |-> 0, s |-> ""]
AnsNaN == [t |-> "nan", n |-> 0, s |-> ""]
AnsNum(n) == [t |-> "num", n |-> n, s |-> ""]
AnsStr(s) == [t |-> "str", n |-> 0, s |-> s]

CAPACITY_MIN == 50
CAPACITY_MAX == 1200
PRICE_MIN == 10
PRICE_MAX == 120

(* the answers tried: every kind of value for each of the three keys *)
GptAnswers ==
    [ticket_vendor : {AnsMissing, AnsNull, AnsStr(""), AnsStr("  "), AnsStr(" Fever "),
                      AnsNum(0), AnsNum(700)},
     capacity : {AnsMissing, AnsNull, AnsNaN, AnsNum(0 - 100), AnsNum(0), AnsNum(4950),
                 AnsNum(5050), AnsNum(45000), AnsNum(120050), AnsNum(500000),
                 AnsStr("300"), AnsStr("abc"), AnsStr("nan")},
     avg_ticket_price : {AnsNull, AnsNaN, AnsNum(0), AnsNum(2899), AnsNum(1000000),
                         AnsStr("abc")}]

(* the answer of the prompt's example: Fever, 450, 28 *)
ExampleAnswer ==
    [ticket_vendor |-> AnsStr("Fever"), capacity |-> AnsNum(45000),
     avg_ticket_price |-> AnsNum(2800)]

LLMOutcomes ==
    {[kind |-> "reply", text |-> "json", data |-> ExampleAnswer],
     [kind |-> "reply", text |-> "empty"],
     [kind |-> "reply", text |-> "garbage"],
     [kind |-> "raise", cls |-> "RateLimitError", status_code |-> 429],
     [kind |-> "raise", cls |-> "APIError", status_code |-> 429],
     [kind |-> "raise", cls |-> "APIError", status_code |-> 500],
     [kind |-> "raise", cls |-> "APIError", status_code |-> 0],
     [kind |-> "raise", cls |-> "OSError", status_code |-> 0]}

(* what a wrapper does: it returns a value or lets an exception out *)
Returns(value) == [raised |-> NULL, returned |-> Some(value)]
Raises(cls) == [raised |-> Some(cls), returned |-> NULL]

ReturnsDict(d) == [raised |-> NULL, returned |-> Some("result"), result |-> d]

(* str.strip() on the vendor strings tried *)
Strip(s) == CASE s = "  " -> "" [] s = " Fever " -> "Fever" [] OTHER -> s

(* a variant of _clamp that converts the value and does not bound it *)
clamp_unbounded(j, lo, hi) ==
    IF j.t = "num" THEN Some(j.n)
    ELSE IF j.t = "str" /\ j.s = "300" THEN Some(30000)
    ELSE IF j.t = "str" /\ j.s = "nan" THEN Some(hi)
    ELSE NULL

(* _clamp, in hundredths: None for None and for a float NaN; float(n)      *)
(* fails on a string that is no number and gives NaN for the string "nan", *)
(* on which min(hi, n) is hi as no comparison with NaN is true             *)
clamp(j, lo, hi) ==
    LET bound(n) == IF n > hi THEN (IF lo > hi THEN lo ELSE hi)
                    ELSE IF lo > n THEN lo ELSE n
    IN  IF j.t \in {"missing", "null", "nan"} THEN NULL
        ELSE IF j.t = "num" THEN Some(bound(j.n))
        ELSE IF j.s = "300" THEN Some(bound(30000))
        ELSE IF j.s = "nan" THEN Some(IF lo > hi THEN lo ELSE hi)
        ELSE NULL

(* int(round(cap)) of a value in hundredths: halves go to the even integer *)
RoundToInt(h) ==
    LET q == h \div 100
        r == h % 100
    IN  IF r < 50 THEN q
        ELSE IF r > 50 THEN q + 1
        ELSE IF q % 2 = 0 THEN q ELSE q + 1

(* the sanitising of a parsed answer: (x or "").strip() raises on a number *)
(* that is not 0, which ends in the branch that returns None; capacity is  *)
(* an integer, avg_ticket_price stays in hundredths                        *)
gpt_result(data) ==
    LET v == data.ticket_vendor
        vendor == IF v.t = "str" THEN Strip(v.s) ELSE ""
        cap == clamp(data.capacity, CAPACITY_MIN * 100, CAPACITY_MAX * 100)
        price == clamp(data.avg_ticket_price, PRICE_MIN * 100, PRICE_MAX * 100)
    IN  IF v.t = "nan" \/ (v.t = "num" /\ v.n # 0) THEN Returns("None")
        ELSE ReturnsDict(
               [ticket_vendor |-> IF vendor = "" THEN "Ticketmaster" ELSE vendor,
                capacity |-> RoundToInt(IF IsNull(cap)
                    THEN ((CAPACITY_MIN + CAPACITY_MAX) \div 2) * 100 ELSE Val(cap)),
                avg_ticket_price |-> IF IsNull(price)
                    THEN ((PRICE_MIN + PRICE_MAX) \div 2) * 100 ELSE Val(price)])

(* enrich_with_gpt: the clamped result, None for an empty or unparsable    *)
(* reply and for an exception that is no APIError; GPTQuotaExceeded for a  *)
(* rate limit; any other APIError is logged and re-raised                  *)
enrich_with_gpt(o) ==
    IF o.kind = "reply"
    THEN IF o.text = "json" THEN gpt_result(o.data) ELSE Returns("None")
    ELSE IF o.cls = "RateLimitError" THEN Raises("GPTQuotaExceeded")
    ELSE IF o.cls = "APIError"
    THEN IF o.status_code = 429 THEN Raises("GPTQuotaExceeded") ELSE Raises(o.cls)
    ELSE Returns("None")

(* call_gpt: the call of the client stands outside any try block; only the *)
(* parse of the reply is protected                                         *)
call_gpt(o) ==
    IF o.kind = "reply"
    THEN IF o.text = "json" THEN Returns("result") ELSE Returns("{}")
    ELSE Raises(o.cls)

(* oai_json: (data, raw) with data None for a reply without JSON and for   *)
(* every exception; the value kept here is data                            *)
oai_json(o) ==
    IF o.kind = "reply"
    THEN IF o.text = "json" THEN Returns("result") ELSE Returns("None")
    ELSE Returns("None")

(***************************************************************************)
(* rate_limiter.py: RateLimiter                                            *)
(*                                                                         *)
(* The clock is kept by what the limiter reads of it: minute_over says     *)
(* that 60 seconds or more have passed since _minute_start, day_over that  *)
(* the UTC day is no longer the one of _day_epoch.  A limit is NULL when   *)
(* the environment gives none (or a value <= 0).                           *)
(***************************************************************************)
MaxTokens == 2
MaxRequests == 2

(* token counts given by the caller: (input, output) *)
TokenCounts == {0 - 1, 1, MaxTokens} \X {0 - 1, MaxTokens}

LimiterLimits ==
    [rpm : {NULL, Some(1)}, tpm : {NULL, Some(MaxTokens + 1)},
     rpd : {NULL, Some(2)}, stop_on_daily : BOOLEAN]

(* __init__, and no call of wait_for_slot in progress *)
NewLimiter(limits) ==
    [pc |-> "idle", limits |-> limits,
     minute_requests |-> 0, minute_tokens |-> 0, day_requests |-> 0,
     minute_over |-> FALSE, day_over |-> FALSE,
     expected_input_tokens |-> 0, expected_output_tokens |-> 0,
     slept |-> FALSE]

LimiterOff == [NewLimiter([rpm |-> NULL, tpm |-> NULL, rpd |-> NULL, stop_on_daily |-> FALSE])
                  EXCEPT !.pc = "off"]

Max0(n) == IF n < 0 THEN 0 ELSE n

(* a variant that never resets a window *)
tick_never(l) == l

(* _tick: reset the minute window, then the day window, when over *)
tick(l) ==
    LET m == IF l.minute_over
             THEN [l EXCEPT !.minute_requests = 0, !.minute_tokens = 0, !.minute_over = FALSE]
             ELSE l
    IN  IF m.day_over THEN [m EXCEPT !.day_requests = 0, !.day_over = FALSE] ELSE m

(* the TPM check, without the tokens of the request to come *)
OverTpm_stored(l, exp_tokens) ==
    ~IsNull(l.limits.tpm) /\ l.minute_tokens > Val(l.limits.tpm)

(* "(self._minute_tokens + exp_tokens) > self.limits.tpm" *)
OverTpm(l, exp_tokens) ==
    ~IsNull(l.limits.tpm) /\ l.minute_tokens + exp_tokens > Val(l.limits.tpm)

(* wait_for_slot is called *)
LimWaitCall ==
    /\ lim.pc \in {"idle", "returned", "raised"}
    /\ \E expected \in TokenCounts :
         lim' = [lim EXCEPT !.pc = "loop", !.slept = FALSE,
                            !.expected_input_tokens = expected[1],
                            !.expected_output_tokens = expected[2]]
    /\ UNCHANGED <<appVars, madVars, call, rt>>

(* one pass of "while True": _tick, then the RPD, RPM and TPM checks.  A   *)
(* sleep to the next minute ends with the minute over, a sleep to tomorrow *)
(* with the day over; the other window may run out during the sleep.       *)
LimWaitPass ==
    /\ lim.pc = "loop"
    /\ LET l == tick(lim)
           exp_tokens == Max0(l.expected_input_tokens) + Max0(l.expected_output_tokens)
       IN  IF ~IsNull(l.limits.rpd) /\ l.day_requests >= Val(l.limits.rpd)
           THEN IF l.limits.stop_on_daily
                THEN lim' = [l EXCEPT !.pc = "raised"]
                ELSE \E m \in BOOLEAN :
                        lim' = [l EXCEPT !.slept = TRUE, !.day_over = TRUE, !.minute_over = m]
           ELSE IF \/ ~IsNull(l.limits.rpm) /\ l.minute_requests + 1 > Val(l.limits.rpm)
                   \/ OverTpm(l, exp_tokens)
           THEN \E d \in BOOLEAN :
                   lim' = [l EXCEPT !.slept = TRUE, !.minute_over = TRUE, !.day_over = d]
           ELSE lim' = [l EXCEPT !.pc = "returned"]
    /\ UNCHANGED <<appVars, madVars, call, rt>>

(* account_after_success; the arguments of the finished call are dropped *)
LimAccount ==
    /\ lim.pc \in {"idle", "returned"}
    /\ lim.day_requests < MaxRequests /\ lim.minute_requests < MaxRequests
    /\ \E used \in TokenCounts :
         LET l == tick(lim)
         IN  lim' = [l EXCEPT !.pc = "idle", !.slept = FALSE,
                              !.expected_input_tokens = 0, !.expected_output_tokens = 0,
                              !.minute_requests = @ + 1, !.day_requests = @ + 1,
                              !.minute_tokens = @ + Max0(used[1]) + Max0(used[2])]
    /\ UNCHANGED <<appVars, madVars, call, rt>>

(* time passes between two calls: the minute runs out, or the day *)
LimClock ==
    /\ lim.pc \in {"idle", "returned", "raised"}
    /\ \/ ~lim.minute_over /\ lim' = [lim EXCEPT !.minute_over = TRUE]
       \/ ~lim.day_over /\ lim' = [lim EXCEPT !.day_over = TRUE]
    /\ UNCHANGED <<appVars, madVars, call, rt>>

(***************************************************************************)
(* model_router.py: QuotaAwareRouter                                       *)
(*                                                                         *)
(* Models are numbered in configured order, 1 being the primary.  Time is  *)
(* in seconds; it advances when the router sleeps.                         *)
(***************************************************************************)
MaxModels == 2
MAX_GLOBAL_SLEEP_S == 30
MAX_COOLDOWN_S == 3600

Models == 1..MaxModels

(* _apply_retry_after: the wait read from the headers of a 429 answer: a   *)
(* Retry-After that parses ("2", "7200") or not ("soon", which leaves 0    *)
(* and keeps the other header from being read), else                       *)
(* x-ratelimit-reset-requests ("2s", "24h0m50s"), else nothing             *)
RetryHeaders == {"none", "retry-after: 2", "retry-after: 7200", "retry-after: soon",
                 "x-ratelimit-reset-requests: 2s", "x-ratelimit-reset-requests: 24h0m50s"}

HeaderWait(h) ==
    IF h \in {"retry-after: 2", "x-ratelimit-reset-requests: 2s"} THEN 2
    ELSE IF h = "retry-after: 7200" THEN 7200
    ELSE IF h = "x-ratelimit-reset-requests: 24h0m50s" THEN 24 * 3600 + 50
    ELSE 0

(* the cooldowns _apply_retry_after may set at time now: a wait <= 0 is    *)
(* replaced by random.uniform(5.0, 15.0), of which both ends are kept;     *)
(* a longer wait is cut to one hour                                        *)
Cooldowns(now, h) ==
    IF HeaderWait(h) <= 0 THEN {now + 5, now + 15}
    ELSE {now + Min2(HeaderWait(h), MAX_COOLDOWN_S)}

(* _pick_model: the first model that is ready; if none is, the model whose *)
(* cooldown ends first (the earliest in order among equals), after a sleep *)
(* of at most max_global_sleep_s.  The result is the model and the time    *)
(* after the sleep.                                                        *)
Ready(r) == {m \in Models : r.now >= r.cooldown_until[m]}

(* a variant that sleeps until the cooldown has ended *)
pick_model_patient(r) ==
    IF Ready(r) # {}
    THEN [model |-> CHOOSE m \in Ready(r) : \A k \in Ready(r) : m <= k, now |-> r.now]
    ELSE LET earliest == CHOOSE m \in Models : \A k \in Models :
                            \/ r.cooldown_until[m] < r.cooldown_until[k]
                            \/ r.cooldown_until[m] = r.cooldown_until[k] /\ m <= k
         IN  [model |-> earliest, now |-> r.cooldown_until[earliest]]

pick_model(r) ==
    IF Ready(r) # {}
    THEN [model |-> CHOOSE m \in Ready(r) : \A k \in Ready(r) : m <= k, now |-> r.now]
    ELSE LET earliest == CHOOSE m \in Models : \A k \in Models :
                            \/ r.cooldown_until[m] < r.cooldown_until[k]
                            \/ r.cooldown_until[m] = r.cooldown_until[k] /\ m <= k
             sleep_for == Min2(r.cooldown_until[earliest] - r.now, MAX_GLOBAL_SLEEP_S)
         IN  [model |-> earliest, now |-> r.now + sleep_for]

(* the router between two calls of chat: the cooldowns left by earlier     *)
(* calls, the attempts of the call in progress, and of the last request    *)
(* sent: the model, and whether its cooldown was still running             *)
NewRouter(cooldown_until) ==
    [pc |-> "idle", now |-> 0, cooldown_until |-> cooldown_until, attempts |-> 0,
     model |-> 0, sent_cooling |-> FALSE, error |-> "none"]

RouterOff == [NewRouter([m \in Models |-> 0]) EXCEPT !.pc = "off"]

(* chat is called *)
RouterChat ==
    /\ rt.pc = "idle"
    /\ rt' = [rt EXCEPT !.pc = "loop", !.attempts = 0]
    /\ UNCHANGED <<appVars, madVars, call, lim>>

(* one pass of "while attempts < max_attempts": pick a model, send the     *)
(* request; the provider answers, or raises a rate-limit error (a          *)
(* RateLimitError or an APIStatusError with status 429) with some headers, *)
(* or raises another error                                                 *)
RouterAttempt ==
    /\ rt.pc = "loop" /\ rt.attempts < MaxModels + 2
    /\ LET pick == pick_model(rt)
           sent == [rt EXCEPT !.attempts = @ + 1, !.now = pick.now, !.model = pick.model,
                              !.sent_cooling = pick.now < rt.cooldown_until[pick.model]]
       IN  \/ rt' = [sent EXCEPT !.pc = "returned"]
           \/ \E h \in RetryHeaders : \E until \in Cooldowns(pick.now, h) :
                 rt' = [sent EXCEPT !.cooldown_until[pick.model] = until,
                                    !.error = "rate limit"]
           \/ rt' = [sent EXCEPT !.pc = "raised", !.error = "APIStatusError 500"]
    /\ UNCHANGED <<appVars, madVars, call, lim>>

(* "raise last_err" after the last attempt *)
RouterExhausted ==
    /\ rt.pc = "loop" /\ rt.attempts >= MaxModels + 2
    /\ rt' = [rt EXCEPT !.pc = "raised"]
    /\ UNCHANGED <<appVars, madVars, call, lim>>

(***************************************************************************)
(* The helpers applied on their own                                        *)
(***************************************************************************)
NoCall == [fn |-> "none", args |-> <<>>, result |-> NULL, again |-> NULL]
CallOff == [NoCall EXCEPT !.fn = "off"]

(* prices in cents, capacities, events per year; NULL is None *)
PriceArgs == {NULL, Some(1), Some(5), Some(1250), Some(2000)}
CapacityArgs == {NULL, Some(1), Some(3), Some(300)}
EventArgs == {NULL, Some(1), Some(20), Some(25)}

CallBaselineRevenue ==
    /\ call.fn = "none"
    /\ \E p \in PriceArgs, c \in CapacityArgs, f \in EventArgs :
         call' = [fn |-> "baseline_revenue", args |-> <<p, c, f>>,
                  result |-> baseline_revenue(p, c, f), again |-> NULL]
    /\ UNCHANGED <<appVars, madVars, quotaVars>>

CallExtractCapacity ==
    /\ call.fn = "none"
    /\ \E text \in Texts :
         call' = [fn |-> "extract_capacity_from_text", args |-> <<text>>,
                  result |-> extract_capacity_from_text(text), again |-> NULL]
    /\ UNCHANGED <<appVars, madVars, quotaVars>>

(* the extractor run a second time on the same text *)
CallExtractCapacityAgain ==
    /\ call.fn = "extract_capacity_from_text"
    /\ call.again = NULL
    /\ call' = [call EXCEPT !.again = Some(extract_capacity_from_text(call.args[1]))]
    /\ UNCHANGED <<appVars, madVars, quotaVars>>

(* the secondary pages: at most three paths are tried *)
CallEnrichFromDomain ==
    /\ call.fn = "none"
    /\ \E domain \in {"", "venue.example"}, page \in Pages \cup {NoPage},
          extras \in [DOMAIN ExtraUrls -> ExtraPages] :
         call' = [fn |-> "enrich_from_domain", args |-> <<domain, page, extras>>,
                  result |-> enrich_from_domain(domain, page, extras), again |-> NULL]
    /\ UNCHANGED <<appVars, madVars, quotaVars>>

(* one run against a website, then a second run against the same website *)
CallEnrichFromWebsite ==
    /\ call.fn = "none"
    /\ \E page \in {p \in Pages : IsNull(p.find.vendor)}, site \in Websites, picks \in Shuffles :
         call' = [fn |-> "enrich_from_website", args |-> <<"venue.example", page, site>>,
                  result |-> enrich_from_website("venue.example", page, site, picks),
                  again |-> NULL]
    /\ UNCHANGED <<appVars, madVars, quotaVars>>

CallEnrichFromWebsiteAgain ==
    /\ call.fn = "enrich_from_website"
    /\ call.again = NULL
    /\ \E picks \in Shuffles :
         call' = [call EXCEPT !.again =
                     Some(enrich_from_website(call.args[1], call.args[2], call.args[3], picks))]
    /\ UNCHANGED <<appVars, madVars, quotaVars>>

CallExtractPrice ==
    /\ call.fn = "none"
    /\ \E offers \in JsonLdOffers, tokens \in TokenLists :
         call' = [fn |-> "extract_average_price_from_soup", args |-> <<offers, tokens>>,
                  result |-> extract_average_price_from_soup(offers, tokens), again |-> NULL]
    /\ UNCHANGED <<appVars, madVars, quotaVars>>

CallDetectVendor ==
    /\ call.fn = "none"
    /\ \E args \in DetectVendorArgs :
         call' = [fn |-> "detect_vendor", args |-> args,
                  result |-> detect_vendor(args[1], args[2], args[3]), again |-> NULL]
    /\ UNCHANGED <<appVars, madVars, quotaVars>>

CallLLMWrapper ==
    /\ call.fn = "none"
    /\ \E o \in LLMOutcomes :
         \/ \E d \in GptAnswers \cup {ExampleAnswer} :
              LET answer == IF o.kind = "reply" /\ o.text = "json"
                            THEN [o EXCEPT !.data = d] ELSE o
              IN  call' = [fn |-> "enrich_with_gpt", args |-> <<answer>>,
                           result |-> enrich_with_gpt(answer), again |-> NULL]
         \/ call' = [fn |-> "call_gpt", args |-> <<o>>,
                     result |-> call_gpt(o), again |-> NULL]
         \/ call' = [fn |-> "oai_json", args |-> <<o>>,
                     result |-> oai_json(o), again |-> NULL]
    /\ UNCHANGED <<appVars, madVars, quotaVars>>

(***************************************************************************)
(* The initial states: one of the two services is deployed, or the helpers *)
(* are applied on their own                                                *)
(***************************************************************************)
Off == [Idle EXCEPT !.pc = "off"]

AppInit ==
    /\ \E keying \in Keyings : \E ts \in [Rows -> DOMAIN RowTemplates] :
          /\ \A j, k \in Rows : j < k => ts[j] <= ts[k]
          /\ tbl = Normalise([k \in Rows |-> MkRow(k, keying, RowTemplates[ts[k]])])
    /\ cfg \in [BACKFILL_REVENUES : BOOLEAN, STOP_ON_429 : {TRUE}]
    /\ inv = Idle
    /\ peer = Off
    /\ mtbl = <<>>
    /\ minv = MadOff
    /\ call = CallOff
    /\ lim = LimiterOff
    /\ rt = RouterOff

MadInit ==
    /\ \E keying \in MadKeyings : \E ts \in [Rows -> DOMAIN MadTemplates] :
          /\ \A j, k \in Rows : j < k => ts[j] <= ts[k]
          /\ mtbl = [k \in Rows |-> MkMadRow(k, keying, MadTemplates[ts[k]])]
    /\ cfg \in [BACKFILL_REVENUES : {TRUE}, STOP_ON_429 : BOOLEAN]
    /\ minv = MadIdle
    /\ tbl = <<>>
    /\ inv = Off
    /\ peer = Off
    /\ call = CallOff
    /\ lim = LimiterOff
    /\ rt = RouterOff

(* two concurrent requests to enrich: one row open to both, the others    *)
(* locked                                                                  *)
PeerInit ==
    /\ \E t \in {1, 4} :
          tbl = Normalise([k \in Rows |->
                    MkRow(k, "id", RowTemplates[IF k = 1 THEN t ELSE 2])])
    /\ cfg = [BACKFILL_REVENUES |-> TRUE, STOP_ON_429 |-> TRUE]
    /\ inv = Idle
    /\ peer = Idle
    /\ mtbl = <<>>
    /\ minv = MadOff
    /\ call = CallOff
    /\ lim = LimiterOff
    /\ rt = RouterOff

LimiterInit ==
    /\ lim \in {NewLimiter(limits) : limits \in LimiterLimits}
    /\ cfg = [BACKFILL_REVENUES |-> TRUE, STOP_ON_429 |-> TRUE]
    /\ tbl = <<>>
    /\ inv = Off
    /\ peer = Off
    /\ mtbl = <<>>
    /\ minv = MadOff
    /\ call = CallOff
    /\ rt = RouterOff

(* a router that has served earlier calls: each model ready, or cooling    *)
(* down for another 40 seconds                                             *)
RouterInit ==
    /\ rt \in {NewRouter(c) : c \in [Models -> {0, 40}]}
    /\ lim = LimiterOff
    /\ cfg = [BACKFILL_REVENUES |-> TRUE, STOP_ON_429 |-> TRUE]
    /\ tbl = <<>>
    /\ inv = Off
    /\ peer = Off
    /\ mtbl = <<>>
    /\ minv = MadOff
    /\ call = CallOff

PureInit ==
    /\ call = NoCall
    /\ cfg = [BACKFILL_REVENUES |-> TRUE, STOP_ON_429 |-> TRUE]
    /\ tbl = <<>>
    /\ inv = Off
    /\ peer = Off
    /\ mtbl = <<>>
    /\ minv = MadOff
    /\ lim = LimiterOff
    /\ rt = RouterOff

Init == AppInit \/ PeerInit \/ MadInit \/ PureInit \/ LimiterInit \/ RouterInit

Next ==
    \/ EnrichStart
    \/ EnrichRow
    \/ EnrichReturn
    \/ PeerStart
    \/ PeerRow
    \/ PeerReturn
    \/ QualityStart
    \/ QualityRow
    \/ QualityReturn
    \/ MadStart
    \/ MadRowOk
    \/ MadRowRaises
    \/ MadRowWriteFails
    \/ MadReturn
    \/ CallBaselineRevenue
    \/ CallExtractCapacity
    \/ CallExtractCapacityAgain
    \/ CallEnrichFromDomain
    \/ CallEnrichFromWebsite
    \/ CallEnrichFromWebsiteAgain
    \/ CallLLMWrapper
    \/ CallDetectVendor
    \/ CallExtractPrice
    \/ LimWaitCall
    \/ LimWaitPass
    \/ LimAccount
    \/ LimClock
    \/ RouterChat
    \/ RouterAttempt
    \/ RouterExhausted

Spec == Init /\ [][Next]_vars

(* the rate limiter alone; a thread inside wait_for_slot keeps running *)
LimiterNext == LimWaitCall \/ LimWaitPass \/ LimAccount \/ LimClock

LimiterFairSpec == LimiterInit /\ [][LimiterNext]_vars /\ WF_vars(LimWaitPass)

(* enrich called again and again by one caller: every request runs to its *)
(* response and is followed by the next                                    *)
BacklogNext == EnrichStart \/ EnrichRow \/ EnrichReturn \/ EnrichRepeat

BacklogFairSpec ==
    /\ AppInit
    /\ [][BacklogNext]_vars
    /\ WF_vars(EnrichRow) /\ WF_vars(EnrichReturn) /\ WF_vars(EnrichRepeat)

(***************************************************************************)
(* Properties                                                              *)
(***************************************************************************)
Locked(r) == r.enrichment_status = Some("LOCKED")

(* C1: whatever the table holds and whatever limit, backfill and force_all *)
(* are, no row whose enrichment_status is 'LOCKED' is among the rows that  *)
(* pick_enrichment_candidates, pick_quality_candidates or the Madrid       *)
(* PENDING query hand to a batch.                                          *)
C1_LockedNeverSelected ==
    [][/\ (inv.pc = "idle" /\ inv'.pc = "loop")
             => \A i \in DOMAIN inv'.rows : ~Locked(tbl[inv'.rows[i].k])
       /\ (minv.pc = "idle" /\ minv'.pc = "loop")
             => \A i \in DOMAIN minv'.rows : ~Locked(mtbl[minv'.rows[i].k])]_vars

(* a selection with room for every row was made over a table holding a     *)
(* LOCKED row with every business field missing, and it selected a row     *)
C1_Witness ==
    /\ minv.pc = "loop" /\ minv.limit = NRows /\ Len(minv.rows) >= 1
    /\ \E k \in DOMAIN mtbl :
          /\ Locked(mtbl[k])
          /\ \A f \in MadFields : IsNull(mtbl[k][f])
          /\ \A i \in DOMAIN minv.rows : minv.rows[i].k # k

(* C2: in run_batch, whenever the website vendor detector produced a       *)
(* vendor for a row, the ticket_vendor written for that row with status OK *)
(* is the site-detected vendor, not the one the LLM gave.                  *)
C2_SiteVendorWins ==
    \A st \in Range(minv.issued) :
        (st.status = "OK" /\ TruthyStr(st.vendor_from_html))
            => st.payload.ticket_vendor = st.vendor_from_html

(* C3: when a row of run_batch fails with a rate-limit error and           *)
(* STOP_ON_GPT_QUOTA is enabled, the batch stops at that row with HTTP 429 *)
(* and "processed" is the number of rows completed before it, in dry and   *)
(* non-dry mode alike.                                                     *)
C3_QuotaStopsWithCount ==
    \A e \in Range(minv.raised) :
        (cfg.STOP_ON_429 /\ e.rate_limit)
            => /\ minv.pc = "done"
               /\ minv.resp # <<>>
               /\ minv.resp[1].code = 429
               /\ minv.resp[1].processed = minv.completed

(* C4: a failing UPDATE of one row is caught: a request of enrich, quality *)
(* or run_batch that has ended has returned its normal JSON summary (and   *)
(* not an internal server error).                                          *)
C4_WriteFailureCaught ==
    /\ inv.pc = "done" => inv.resp[1].code = 200
    /\ minv.pc = "done" => minv.resp[1].code \in {200, 429}

(* the business fields of the OUTPUT table, and the source tag of revenues *)
AppBusinessCols ==
    {"avg_ticket_price", "capacity", "frequency_per_year", "revenues", "revenues_source",
     "rfp_detected"}

(* C5, as stated: no step of either service replaces a stored non-null     *)
(* business field (or source tag) by NULL.                                 *)
C5_NoStoredValueLost ==
    [][/\ \A k \in DOMAIN tbl : \A c \in AppBusinessCols :
             ~IsNull(tbl[k][c]) => ~IsNull(tbl'[k][c])
       /\ \A k \in DOMAIN mtbl : \A c \in MadFields :
             ~IsNull(mtbl[k][c]) => ~IsNull(mtbl'[k][c])]_vars

(* C5, amended: in enrich_app.py, a business field (or source tag) of a    *)
(* row changes only in a step that issues an UPDATE naming that column,    *)
(* and then to the non-null value the UPDATE carries; every other business *)
(* field keeps its stored value.  The UPDATE is that of the invocation     *)
(* taking the step.                                                        *)
C5_AppWriterFrame ==
    [][LET before == IF peer' # peer THEN peer ELSE inv
           after == IF peer' # peer THEN peer' ELSE inv'
       IN  \A k \in DOMAIN tbl : \A c \in AppBusinessCols :
              tbl'[k][c] # tbl[k][c]
                 => /\ after.issued # <<>>
                    /\ after.i = before.i + 1
                    /\ c \in after.issued[1].cols
                    /\ tbl'[k][c] = after.issued[1].updates[c]
                    /\ ~IsNull(tbl'[k][c])]_vars

(* quality has written rfp_detected alone on a row with a stored revenue   *)
(* and source tag                                                          *)
C5_Witness ==
    /\ inv.op = "quality" /\ inv.issued # <<>>
    /\ inv.issued[1].cols = {"rfp_detected", "last_updated"}
    /\ ~IsNull(tbl[inv.issued[1].k].revenues)
    /\ ~IsNull(tbl[inv.issued[1].k].revenues_source)
    /\ ~IsNull(tbl[inv.issued[1].k].avg_ticket_price)

(* C7: an UPDATE of enrich or quality carries an LLM estimate as revenues  *)
(* only if the LLM returned a number > 0 as revenue and a number >=        *)
(* QUALITY_MIN_CONF as confidence.                                         *)
C7_OverwriteNeedsNumericConfidence ==
    \A st \in Range(inv.issued) :
        st.llm_revenue.t # "missing"
            => /\ st.llm_revenue.t = "num" /\ st.llm_revenue.v > 0
               /\ st.llm_confidence.t = "num"
               /\ st.llm_confidence.v >= QUALITY_MIN_CONF

(* C6: a source tag is set only with its field: in every result of        *)
(* enrich_from_domain, and in every UPDATE issued by enrich and quality, a *)
(* non-null avg_ticket_price_source, capacity_source, ticket_vendor_source *)
(* or revenues_source comes with a non-null value of the paired field.     *)
C6_SourceOnlyWithField ==
    /\ call.fn = "enrich_from_domain" =>
         /\ ~IsNull(call.result.avg_ticket_price_source) => ~IsNull(call.result.avg_ticket_price)
         /\ ~IsNull(call.result.capacity_source) => ~IsNull(call.result.capacity)
         /\ ~IsNull(call.result.ticket_vendor_source) => ~IsNull(call.result.ticket_vendor)
    /\ \A st \in Range(inv.issued) :
         ("revenues_source" \in st.cols /\ ~IsNull(st.updates.revenues_source))
            => ("revenues" \in st.cols /\ ~IsNull(st.updates.revenues))

(* enrich_from_domain found the price on the landing page, the capacity on *)
(* the second secondary page and no vendor                                 *)
C6_Witness ==
    /\ call.fn = "enrich_from_domain"
    /\ call.result.avg_ticket_price_source = Some("final_url")
    /\ call.result.capacity_source = Some(ExtraUrls[2])
    /\ IsNull(call.result.ticket_vendor) /\ IsNull(call.result.ticket_vendor_source)

(* C8: for positive price, capacity and events per year, baseline_revenue  *)
(* is price * capacity * events * load factor rounded to the cent (a       *)
(* nearest cent of the exact product), and 20.00, 300, 20 at load factor   *)
(* 0.70 give 84000.00.                                                     *)
C8_RevenueFormula ==
    (call.fn = "baseline_revenue" /\ \A a \in Range(call.args) : ~IsNull(a) /\ Val(a) > 0)
        => LET exact == Val(call.args[1]) * Val(call.args[2]) * Val(call.args[3])
                           * DEFAULT_LOAD_FACTOR
               diff == 100 * Val(call.result) - exact
           IN  /\ ~IsNull(call.result)
               /\ 2 * diff <= 100 /\ 2 * diff >= 0 - 100
               /\ call.args = <<Some(2000), Some(300), Some(20)>> => call.result = Some(8400000)

(* baseline_revenue(20.00, 300, 20) has returned 84000.00 *)
C8_Witness ==
    /\ call.fn = "baseline_revenue"
    /\ call.args = <<Some(2000), Some(300), Some(20)>>
    /\ call.result = Some(8400000)

(* C9: when the text holds capacity mentions within the plausible range,   *)
(* the capacity extractor returns the largest of them.                     *)
C9_LargestPlausible ==
    call.fn = "extract_capacity_from_text"
        => LET text == call.args[1]
               plausible == {text[j].n : j \in {i \in DOMAIN text :
                                                  20 <= text[i].n /\ text[i].n <= 100000}}
           IN  plausible # {} => call.result = Some(SetMax(plausible))

C11_PriceWithinBound ==
    (call.fn = "extract_average_price_from_soup" /\ ~IsNull(call.result))
        => (300 <= Val(call.result) /\ Val(call.result) <= 80000)

(* C12, as stated: the price extractor returns the median of the prices    *)
(* found; for the prices 12, 15 and 45 it returns 15.0.                    *)
C12_PriceIsMedian ==
    call.fn = "extract_average_price_from_soup"
        => LET vals == PriceVals(call.args[1], call.args[2])
               n == Len(vals)
           IN  n % 2 = 1 =>
                 /\ ~IsNull(call.result)
                 /\ \E i \in 1..n :
                       /\ vals[i] = Val(call.result)
                       /\ 2 * Cardinality({j \in 1..n : vals[j] <= vals[i]}) > n
                       /\ 2 * Cardinality({j \in 1..n : vals[j] >= vals[i]}) > n

(* C12, amended: the price extractor returns the mean of the prices found, *)
(* rounded to the cent (a nearest cent of sum / count); for the prices 12, *)
(* 15 and 45 it returns 24.0.                                              *)
C12_PriceIsMean ==
    call.fn = "extract_average_price_from_soup"
        => LET vals == PriceVals(call.args[1], call.args[2])
               n == Len(vals)
               diff == n * Val(call.result) - SeqSum(vals)
           IN  /\ n = 0 <=> IsNull(call.result)
               /\ n > 0 => (2 * diff <= n /\ 2 * diff >= 0 - n)
               /\ vals = <<1200, 1500, 4500>> => call.result = Some(2400)

(* the extractor ran on a page without JSON-LD offers whose text holds the *)
(* prices 12, 15 and 45, and returned 24.00                                *)
C12_Witness ==
    /\ call.fn = "extract_average_price_from_soup"
    /\ call.args[1] = <<>>
    /\ call.args[2] = <<PriceToken(12, "", 0, 0), PriceToken(15, "", 0, 0),
                        PriceToken(45, "", 0, 0)>>
    /\ call.result = Some(2400)

(* C13: among the vendor signals of the links of a page, detect_vendor    *)
(* returns the vendor of highest priority (the earliest row of the         *)
(* signature table), whatever the order of the links.                      *)
C13_HighestPriorityVendor ==
    (/\ call.fn = "detect_vendor"
     /\ MatchingRows(call.args[1]) = {}
     /\ \E k \in DOMAIN call.args[3] : MatchingRows(call.args[3][k]) # {})
        => LET rows == UNION {MatchingRows(call.args[3][k]) : k \in DOMAIN call.args[3]}
               best == CHOOSE i \in rows : \A j \in rows : i <= j
           IN  call.result.vendor = Some(VendorPatterns[best].vendor)

(* the keywords that mark an aggregator or marketplace, in lower case *)
DenyKeywords == {
    <<"a", "g", "g", "r", "e", "g", "a", "t", "o", "r">>,
    <<"d", "i", "r", "e", "c", "t", "o", "r", "y">>,
    <<"v", "i", "a", "g", "o", "g", "o">>,
    <<"s", "t", "u", "b", "h", "u", "b">>
}

UpperCase == <<"A", "B", "C", "D", "E", "F", "G", "H", "I", "J", "K", "L", "M",
               "N", "O", "P", "Q", "R", "S", "T", "U", "V", "W", "X", "Y", "Z">>
LowerCase == <<"a", "b", "c", "d", "e", "f", "g", "h", "i", "j", "k", "l", "m",
               "n", "o", "p", "q", "r", "s", "t", "u", "v", "w", "x", "y", "z">>

LowerChar(c) ==
    IF \E i \in DOMAIN UpperCase : UpperCase[i] = c
    THEN LowerCase[CHOOSE i \in DOMAIN UpperCase : UpperCase[i] = c]
    ELSE c

Lower(name) == [i \in DOMAIN name |-> LowerChar(name[i])]

Contains(name, kw) ==
    \E i \in 1..(Len(name) - Len(kw) + 1) : SubSeq(name, i, i + Len(kw) - 1) = kw

(* C14: the vendor name detect_vendor returns never contains one of the    *)
(* aggregator/marketplace keywords (aggregator, directory, viagogo,        *)
(* stubhub), in any letter case.                                           *)
C14_NoDenylistedVendor ==
    (call.fn = "detect_vendor" /\ ~IsNull(call.result.vendor))
        => \A kw \in DenyKeywords : ~Contains(Lower(Val(call.result.vendor)), kw)

(* detect_vendor ran on a page whose first link goes to viagogo and whose  *)
(* second link goes to Ticketmaster, and returned Ticketmaster with the    *)
(* second link as evidence                                                 *)
C14_Witness ==
    /\ call.fn = "detect_vendor"
    /\ call.args[1] = "venue.example"
    /\ call.args[3] = <<"https://www.viagogo.com/x", "https://www.ticketmaster.com/event/1">>
    /\ call.result.vendor = Some(VendorPatterns[1].vendor)
    /\ call.result.v_src = Some([prefix |-> "", url |-> "https://www.ticketmaster.com/event/1"])


(* C15: every UPDATE update_row issues sets both last_updated and          *)
(* enrichment_status, whatever the computed fields are.                    *)
C15_UpdateSetsTimestampAndStatus ==
    inv.issued # <<>> =>
        {"last_updated", "enrichment_status"} \subseteq inv.issued[1].cols


(* a failure of the provider that is no quota or rate-limit condition *)
TransientFailure(o) ==
    o.kind = "raise" /\ o.cls # "RateLimitError" /\ o.status_code # 429

LLMWrappers == {"enrich_with_gpt", "call_gpt", "oai_json"}

(* C16: a transient failure of the LLM provider that is no quota condition *)
(* never leaves enrich_with_gpt, call_gpt or oai_json: the wrapper returns *)
(* an empty contribution (None or an empty dict).                          *)
C16_TransientFailureContained ==
    (call.fn \in LLMWrappers /\ TransientFailure(call.args[1]))
        => /\ call.result.raised = NULL
           /\ call.result.returned \in {Some("None"), Some("{}")}


(* C17: once a run that is not dry has written a row so that a business    *)
(* attribute is non-null and enrichment_status is set, the row is outside  *)
(* the selection predicate of the handler that wrote it (enrich with the   *)
(* backfill flag of the request, run_batch after an OK or ERROR write).    *)
C17_WrittenRowLeavesSelection ==
    /\ (inv.op = "enrich" /\ inv.issued # <<>>) =>
          LET r == tbl[inv.issued[1].k]
          IN  ((\E c \in AppBusinessCols : ~IsNull(r[c])) /\ ~IsNull(r.enrichment_status))
                  => ~EnrichWhere(r, inv.flag)
    /\ minv.issued # <<>> =>
          LET r == mtbl[minv.issued[1].k]
          IN  ((\E f \in MadFields : ~IsNull(r[f])) /\ ~IsNull(r.enrichment_status))
                  => ~PendingWhere(r)


(* C18: two runs of enrich_from_domain against the same website return the *)
(* same values and the same source tags.                                   *)
C18_SameWebsiteSameResult ==
    (call.fn = "enrich_from_website" /\ call.again # NULL)
        => call.again = Some(call.result)


(* the selection of a request that has just started holds every row that   *)
(* satisfies the WHERE clause, when the limit allows it                     *)
SelectsEveryOpenRow(started) ==
    LET open == {k \in DOMAIN tbl : EnrichWhere(tbl[k], started.flag)}
    IN  started.limit >= Cardinality(open)
            => {started.rows[j].k : j \in DOMAIN started.rows} = open

(* C19: two interleaved invocations of enrich can select the same row and  *)
(* both issue an UPDATE for it: the selection of an invocation is decided  *)
(* by the WHERE clause on the table alone (the LOCKED check and the        *)
(* revenue test), whatever rows the other invocation holds.                *)
C19_SelectionIgnoresOtherInvocation ==
    [][/\ (inv.pc = "idle" /\ inv'.pc = "loop" /\ inv'.op = "enrich")
              => SelectsEveryOpenRow(inv')
       /\ (peer.pc = "idle" /\ peer'.pc = "loop") => SelectsEveryOpenRow(peer')]_vars

(* both invocations selected the row while its revenue was still missing,  *)
(* both issued an UPDATE for it with different revenues, and the table     *)
(* holds the revenue of the second invocation: its write came last and     *)
(* replaced the other                                                      *)
C19_Witness ==
    /\ inv.op = "enrich" /\ inv.issued # <<>> /\ peer.issued # <<>>
    /\ inv.issued[1].k = peer.issued[1].k
    /\ IsNull(inv.rows[1].revenues) /\ IsNull(peer.rows[1].revenues)
    /\ inv.rows[1].k = inv.issued[1].k /\ peer.rows[1].k = peer.issued[1].k
    /\ inv.issued[1].updates.revenues # peer.issued[1].updates.revenues
    /\ tbl[peer.issued[1].k].revenues = peer.issued[1].updates.revenues


(* C20: with dry=1 no handler issues an UPDATE: no step of a dry request   *)
(* to enrich, quality or run_batch changes the table or issues a           *)
(* statement, on the success path and on the per-row error path.           *)
C20_DryRunWritesNothing ==
    [][/\ (inv' # inv /\ inv'.dry) => (tbl' = tbl /\ inv'.issued = <<>>)
       /\ (peer' # peer /\ peer'.dry) => (tbl' = tbl /\ peer'.issued = <<>>)
       /\ (minv' # minv /\ minv'.dry) => (mtbl' = mtbl /\ minv'.issued = <<>>)]_vars

(* a dry run_batch went through two rows, one on the success path and one  *)
(* on the error path, returned, and issued nothing                         *)
C20_Witness ==
    /\ minv.dry /\ minv.pc = "done"
    /\ minv.items = 2 /\ minv.completed = 1
    /\ minv.issued = <<>>
    /\ \E k \in DOMAIN mtbl : PendingWhere(mtbl[k])


(* C21: when wait_for_slot has returned, one more request with the         *)
(* expected tokens stays within every configured limit of the window:      *)
(* _minute_requests + 1 <= rpm, _minute_tokens + expected_input +          *)
(* expected_output <= tpm, and _day_requests < rpd.                        *)
C21_ReturnLeavesRoom ==
    lim.pc = "returned" =>
        /\ ~IsNull(lim.limits.rpm) => lim.minute_requests + 1 <= Val(lim.limits.rpm)
        /\ ~IsNull(lim.limits.tpm) =>
              lim.minute_tokens + lim.expected_input_tokens + lim.expected_output_tokens
                  <= Val(lim.limits.tpm)
        /\ ~IsNull(lim.limits.rpd) => lim.day_requests < Val(lim.limits.rpd)

(* wait_for_slot returned after a sleep, with the three limits configured, *)
(* one request counted today and expected tokens that fill the TPM limit   *)
C21_Witness ==
    /\ lim.pc = "returned" /\ lim.slept
    /\ ~IsNull(lim.limits.rpm) /\ ~IsNull(lim.limits.tpm) /\ ~IsNull(lim.limits.rpd)
    /\ lim.day_requests = 1
    /\ lim.expected_input_tokens + lim.expected_output_tokens = Val(lim.limits.tpm)

(* the daily cap is reached *)
DailyCapReached(l) == ~IsNull(l.limits.rpd) /\ l.day_requests >= Val(l.limits.rpd)

(* C22, as stated: when wait_for_slot raises QuotaExhaustedError it has not *)
(* slept and the request and token counters are what they were.            *)
C22_RaiseLeavesCountersUnchanged ==
    [][(lim.pc = "loop" /\ lim'.pc = "raised")
          => /\ ~lim'.slept
             /\ lim'.minute_requests = lim.minute_requests
             /\ lim'.minute_tokens = lim.minute_tokens
             /\ lim'.day_requests = lim.day_requests]_vars

(* C22, amended: with stop_on_daily set, every call made while the daily   *)
(* cap is reached and the UTC day has not rolled over raises               *)
(* QuotaExhaustedError without sleeping and counts nothing: _day_requests  *)
(* keeps its value, and the minute counters keep theirs unless the minute  *)
(* window has run out, in which case _tick resets them to 0.  It raises in *)
(* no other case.                                                          *)
C22_RaiseCountsNothing ==
    [][/\ (lim.pc = "loop" /\ lim.limits.stop_on_daily /\ DailyCapReached(lim) /\ ~lim.day_over)
             => /\ lim'.pc = "raised" /\ ~lim'.slept
                /\ lim'.day_requests = lim.day_requests
                /\ IF lim.minute_over
                   THEN lim'.minute_requests = 0 /\ lim'.minute_tokens = 0
                   ELSE /\ lim'.minute_requests = lim.minute_requests
                        /\ lim'.minute_tokens = lim.minute_tokens
       /\ (lim.pc = "loop" /\ lim'.pc = "raised")
             => lim.limits.stop_on_daily /\ DailyCapReached(lim) /\ ~lim.day_over]_vars

(* wait_for_slot raised at the daily cap in a call whose _tick found the   *)
(* minute window over: the minute counters are back to 0                   *)
C22_Witness ==
    /\ lim.pc = "raised" /\ ~lim.slept
    /\ DailyCapReached(lim)
    /\ lim.minute_requests = 0 /\ lim.minute_tokens = 0 /\ ~lim.minute_over

(* C27: every call of wait_for_slot made while the daily cap is not        *)
(* reached eventually returns, whatever the limits and the expected token  *)
(* counts are.                                                             *)
C27_WaitEventuallyReturns ==
    (lim.pc = "loop" /\ ~DailyCapReached(lim)) ~> (lim.pc = "returned")


(* an attempt of chat: a step that sends one request *)
EarliestModel(r) ==
    CHOOSE m \in Models : \A k \in Models :
        \/ r.cooldown_until[m] < r.cooldown_until[k]
        \/ r.cooldown_until[m] = r.cooldown_until[k] /\ m <= k

C30_RouterStaysWithinLimits ==
    /\ rt.attempts > 0 => ~rt.sent_cooling
    /\ rt.attempts <= MaxModels + 2
    /\ \A m \in Models : rt.cooldown_until[m] <= rt.now + MAX_COOLDOWN_S


RateLimited(o) ==
    /\ o.kind = "raise"
    /\ \/ o.cls = "RateLimitError"
       \/ o.cls = "APIError" /\ o.status_code = 429

(* C24: whenever enrich_with_gpt returns a dict, ticket_vendor is a        *)
(* non-empty string, capacity an integer within [CAPACITY_MIN,             *)
(* CAPACITY_MAX] and avg_ticket_price a number within [PRICE_MIN,          *)
(* PRICE_MAX], whatever the model answered; it raises GPTQuotaExceeded     *)
(* exactly when the provider's error is a rate limit.                      *)
C24_ResultWithinRanges ==
    call.fn = "enrich_with_gpt"
        => /\ call.result.returned = Some("result")
                => /\ call.result.result.ticket_vendor # ""
                   /\ Strip(call.result.result.ticket_vendor)
                          = call.result.result.ticket_vendor
                   /\ call.result.result.capacity \in CAPACITY_MIN..CAPACITY_MAX
                   /\ call.result.result.avg_ticket_price
                          \in (PRICE_MIN * 100)..(PRICE_MAX * 100)
           /\ call.result.raised = Some("GPTQuotaExceeded")
                <=> RateLimited(call.args[1])

(* an answer without a vendor, with a capacity far above the range and a   *)
(* price that is no number: the dict holds the default vendor, the upper   *)
(* bound of the capacity and the midpoint of the prices                    *)
C24_Witness ==
    /\ call.fn = "enrich_with_gpt"
    /\ call.args[1].kind = "reply" /\ call.args[1].text = "json"
    /\ call.args[1].data.ticket_vendor = AnsNull
    /\ call.args[1].data.capacity = AnsNum(500000)
    /\ call.args[1].data.avg_ticket_price = AnsStr("abc")
    /\ call.result.returned = Some("result")
    /\ call.result.result.ticket_vendor = "Ticketmaster"
    /\ call.result.result.capacity = CAPACITY_MAX
    /\ call.result.result.avg_ticket_price = 6500


(* C25: in enrich every selected row is taken by one iteration, which      *)
(* issues at most one UPDATE, and a revenues value that is neither NULL    *)
(* nor 0 is replaced only by an accepted LLM estimate: the baseline is     *)
(* written only when BACKFILL_REVENUES is on, the baseline is not 0, the   *)
(* LLM estimate was not accepted and the revenues of the row, as stored    *)
(* when the UPDATE runs, are NULL or 0.                                    *)
C25_BaselineOnlyOverEmptyRevenue ==
    [][LET before == IF peer' # peer THEN peer ELSE inv
           after == IF peer' # peer THEN peer' ELSE inv'
           gpt == after.wrote_gpt = before.wrote_gpt + 1
           fallback == after.wrote_fallback = before.wrote_fallback + 1
       IN  (before.op = "enrich" /\ before.pc = "loop" /\ after.i = before.i + 1)
              => /\ \A i, j \in DOMAIN before.rows :
                       i # j => before.rows[i].k # before.rows[j].k
                 /\ ~(gpt /\ fallback)
                 /\ fallback
                       => /\ cfg.BACKFILL_REVENUES
                          /\ before.dry \/ after.issued[1].updates.revenues \notin {NULL, Some(0)}
                 /\ \A k \in DOMAIN tbl :
                       (/\ tbl[k].revenues \notin {NULL, Some(0)}
                        /\ \/ tbl'[k].revenues # tbl[k].revenues
                           \/ tbl'[k].revenues_source # tbl[k].revenues_source)
                          => gpt]_vars


(* C26: in every response of enrich, processed = wrote_gpt +               *)
(* wrote_fallback + skipped; in every response of quality, processed =     *)
(* improved_revenues + rfp_detected_updates + skipped; in both, processed  *)
(* is the number of rows selected and is at most limit.                    *)
C26_CountersAddUp ==
    \A n \in {inv, peer} :
        (n.pc = "done" /\ n.resp[1].code = 200)
           => /\ n.resp[1].processed = Len(n.rows)
              /\ n.resp[1].processed <= n.limit
              /\ n.op = "enrich"
                    => n.resp[1].processed
                         = n.resp[1].wrote_gpt + n.resp[1].wrote_fallback + n.resp[1].skipped
              /\ n.op = "quality"
                    => n.resp[1].processed
                         = n.resp[1].improved_revenues + n.resp[1].rfp_detected_updates
                           + n.resp[1].skipped

(* enrich has answered for two rows, one written from the baseline and one *)
(* skipped                                                                 *)
C26_Witness ==
    /\ inv.pc = "done" /\ inv.op = "enrich" /\ inv.resp[1].code = 200
    /\ inv.resp[1].processed = 2 /\ inv.limit = 2
    /\ inv.resp[1].wrote_fallback = 1 /\ inv.resp[1].skipped = 1


(* C28: under repeated invocations of enrich that are not dry and have the *)
(* same limit >= 1, every row that satisfies the selection predicate is    *)
(* eventually among the rows selected (or has left the predicate).         *)
C28_EveryOpenRowEventuallySelected ==
    \A k \in Rows :
        (/\ inv.op = "enrich" /\ ~inv.dry /\ inv.limit >= 1
         /\ EnrichWhere(tbl[k], inv.flag))
           ~> \/ \E i \in DOMAIN inv.rows : inv.rows[i].k = k
              \/ ~EnrichWhere(tbl[k], inv.flag)


(* the row r is as it was, q: every column but the renumbered timestamp *)
Untouched(q, r) ==
    /\ \A c \in DOMAIN q \ {"last_updated"} : r[c] = q[c]
    /\ IsNull(r.last_updated) <=> IsNull(q.last_updated)

(* C29: an UPDATE issued for a selected row modifies that row only: no     *)
(* other row of the table, and so no LOCKED row, is changed by it, in the  *)
(* OUTPUT table of enrich_app.py and in the Madrid table alike.            *)
C29_UpdateTouchesOnlyItsRow ==
    [][LET after == IF peer' # peer THEN peer' ELSE inv'
       IN  /\ tbl' # tbl
                => \A k \in DOMAIN tbl :
                      k # after.issued[1].k => Untouched(tbl[k], tbl'[k])
           /\ mtbl' # mtbl
                => \A k \in DOMAIN mtbl :
                      k # minv'.issued[1].k => Untouched(mtbl[k], mtbl'[k])]_vars

====
